---- MODULE Spec2Model ----
(***************************************************************************)
(* DQ Service Calculator: the calculation engine (calculator/engine.py),   *)
(* the configuration schema validation (config/schema.py), the             *)
(* configuration loader (config/loader.py), the breakdown formatter        *)
(* (calculator/breakdown.py), the questions form (ui/generator.py) and the *)
(* application flow (app_refactored.py).                                   *)
(*                                                                         *)
(* Day coefficients are Python floats; every coefficient used here is a    *)
(* multiple of 0.5, so a day quantity is held as a whole number of         *)
(* half-days (Unit half-days make one day).  base_service_days and         *)
(* minimum_project_days are declared int and are held in whole days.       *)
(***************************************************************************)
EXTENDS Integers, Sequences, FiniteSets, TLC

VARIABLES
    config,         \* CalculationEngine.config (self.rules is its calculation_rules)
    responses,      \* the response set of the current request
    pc,             \* the position of the caller: "input" between calls or runs
    result,         \* what calculate_working_days returned or that it raised
    validation,     \* what validate_responses returned or that it raised
    edits,          \* number of answers changed so far
    file,           \* content of the configuration source file
    loader_config,  \* ConfigLoader._config of the global loader
    returned,       \* the value the last load_config returned
    outcome,        \* how the last load_config ended
    error,          \* the exception the last load_config raised
    loader_path,    \* ConfigLoader.config_path of the global loader
    query,          \* what the last derived query of the loader returned
    report,         \* what the last call of the breakdown formatter returned
    session,        \* st.session_state: calculated, total_days, breakdown, responses
    calc_results    \* what the last calculate_results returned or that it raised

vars == <<config, responses, pc, result, validation, edits,
          file, loader_config, returned, outcome, error, loader_path, query, report,
          session, calc_results>>

(***************************************************************************)
(* Bounds                                                                  *)
(***************************************************************************)
MaxEdits == 2

(***************************************************************************)
(* Python values held in a response set                                    *)
(***************************************************************************)
Unit == 2

Num(n)  == [t |-> "num",  n |-> n, s |-> ""]
Str(s)  == [t |-> "str",  n |-> 0, s |-> s]
Bool(b) == [t |-> "bool", n |-> IF b THEN 1 ELSE 0, s |-> ""]
NoneV   == [t |-> "none", n |-> 0, s |-> ""]

\* int, float and bool are the Python types arithmetic accepts
IsNumber(v) == v.t \in {"num", "bool"}

\* every value counts as true
Truthy_Always(v) == TRUE

\* Python truthiness of a response value
Truthy(v) ==
    CASE v.t = "num"  -> v.n # 0
      [] v.t = "bool" -> v.n # 0
      [] v.t = "str"  -> v.s # ""
      [] OTHER        -> FALSE

EmptyTbl == [x \in {} |-> 0]

\* dict.get(key, default) on a response set
RGet(r, k, d) == IF k \in DOMAIN r THEN r[k] ELSE d

\* a label that is not a key gives 0 whatever the default
Lookup_ZeroDefault(tbl, v, d) == IF v.t = "str" /\ v.s \in DOMAIN tbl THEN tbl[v.s] ELSE 0

\* dict.get(label, default) on a coefficient table keyed by label strings
Lookup(tbl, v, d) == IF v.t = "str" /\ v.s \in DOMAIN tbl THEN tbl[v.s] ELSE d

\* dict.get(name, default) on a table keyed by parameter names
TGet(tbl, k, d) == IF k \in DOMAIN tbl THEN tbl[k] ELSE d

\* label in dict
InTbl(tbl, v) == v.t = "str" /\ v.s \in DOMAIN tbl

\* result of a component computation: a number of half-days, or an exception
Ok(v) == [ok |-> TRUE, v |-> v]
Raise == [ok |-> FALSE, v |-> 0]

\* a component that returns a str in place of a number of days: the text s
\* repeated times over, the empty str when times is 0
StrDays(s, times) ==
    [ok |-> TRUE, v |-> 0, str |-> TRUE, s |-> s, times |-> IF times > 0 THEN times ELSE 0]

\* whether the coefficient a table holds under a label is a Python int: the
\* document writes its whole-day coefficients without a decimal point, and
\* _parse_config passes the tables through as yaml.safe_load gave them
IsInt(rules, tbl, v) ==
    rules.int_coefficients /\ InTbl(tbl, v) /\ tbl[v.s] % Unit = 0

\* int(x) for x given in half-days: truncation toward zero
PyInt(h) == IF h >= 0 THEN h \div Unit ELSE -((-h) \div Unit)

\* a / 5 rounded down instead of up
CeilDiv5_Floor(a) == a \div 5

\* math.ceil(a / 5)
CeilDiv5(a) == -((-a) \div 5)

Max(a, b) == IF a >= b THEN a ELSE b

(***************************************************************************)
(* Labels                                                                  *)
(***************************************************************************)
WfSimple    == "Simple (single table/report)"
WfComplex   == "Complex (multiple tables/joins)"
IntSingle   == "Single location (same database/schema)"
IntComplex  == "Complex integration (4+ sources)"
IntLegacy   == "High"
RulesNotDoc == "Not documented"
RulesDoc    == "Fully documented"
ToolNone    == "No commercial tool"
ToolHave    == "Have existing DQ tool"
ToolOther   == "Need other tool"
ToolAcquire == "Need tool acquisition"
ToolInHouse == "Existing in-house tool"
WashNo      == "No, not needed"
WashYes     == "Yes, please provide installation"
CloudNA     == "Not applicable"
CloudAWS    == "AWS"
VolSmall    == "Small (<1M records)"
VolLarge    == "Large (>10M records)"

\* 'existing' in label.lower()
ContainsExisting(s) == s \in {ToolHave, ToolInHouse}

(***************************************************************************)
(* calculator/engine.py                                                    *)
(***************************************************************************)
tables_count(r) == RGet(r, "tables_count", RGet(r, "num_workflows", Num(1)))

\* tables_count * multiplier: the product for a number; for a str the str
\* repeated when the multiplier is an int and a TypeError when it is a float;
\* a TypeError for None
Times(tc, m, is_int) ==
    IF IsNumber(tc) THEN Ok(tc.n * m)
    ELSE IF tc.t = "str" /\ is_int THEN StrDays(tc.s, m \div Unit) ELSE Raise

_calculate_workflow_complexity(rules, r) ==
    LET workflow_complexity == RGet(r, "workflow_complexity", Str(WfSimple))
        multiplier == Lookup(rules.workflow_multipliers, workflow_complexity, 2 * Unit)
    IN  Times(tables_count(r), multiplier,
              IsInt(rules, rules.workflow_multipliers, workflow_complexity))

\* the legacy table looked up before the current one
_calculate_integration_complexity_LegacyFirst(rules, r) ==
    LET integration_complexity ==
            RGet(r, "data_sources", RGet(r, "integration_complexity", Str("")))
        base_multiplier ==
            IF InTbl(rules.integration_complexity_legacy, integration_complexity)
            THEN rules.integration_complexity_legacy[integration_complexity.s]
            ELSE IF InTbl(rules.integration_complexity, integration_complexity)
                 THEN rules.integration_complexity[integration_complexity.s]
                 ELSE 0
        is_int ==
            IF InTbl(rules.integration_complexity_legacy, integration_complexity)
            THEN IsInt(rules, rules.integration_complexity_legacy, integration_complexity)
            ELSE IsInt(rules, rules.integration_complexity, integration_complexity)
    IN  Times(tables_count(r), base_multiplier, is_int)

_calculate_integration_complexity(rules, r) ==
    LET integration_complexity ==
            RGet(r, "data_sources", RGet(r, "integration_complexity", Str("")))
        base_multiplier ==
            IF InTbl(rules.integration_complexity, integration_complexity)
            THEN rules.integration_complexity[integration_complexity.s]
            ELSE IF InTbl(rules.integration_complexity_legacy, integration_complexity)
                 THEN rules.integration_complexity_legacy[integration_complexity.s]
                 ELSE 0
        is_int ==
            IF InTbl(rules.integration_complexity, integration_complexity)
            THEN IsInt(rules, rules.integration_complexity, integration_complexity)
            ELSE IsInt(rules, rules.integration_complexity_legacy, integration_complexity)
    IN  Times(tables_count(r), base_multiplier, is_int)

rules_overhead_term(rules, r) ==
    IF "rules_count" \notin DOMAIN r THEN Ok(0)
    ELSE LET rc == r["rules_count"]
             tc == tables_count(r)
         IN  IF ~(IsNumber(rc) /\ IsNumber(tc)) THEN Raise
             ELSE LET total_rules == rc.n * tc.n
                      base_included == TGet(rules.rules_overhead, "base_rules_included", 20)
                  IN  IF total_rules > base_included
                      THEN Ok(CeilDiv5(total_rules - base_included)
                              * TGet(rules.rules_overhead, "additional_rules_per_5", Unit \div 2))
                      ELSE Ok(0)

base_rules_impact(rules, r) ==
    LET existing_rules ==
            RGet(r, "existing_rules", RGet(r, "dq_rules_status", Str(RulesNotDoc)))
    IN  Lookup(rules.existing_rules_impact, existing_rules, 5 * Unit)

_calculate_rules_development(rules, r) ==
    LET oh == rules_overhead_term(rules, r)
    IN  IF oh.ok THEN Ok(base_rules_impact(rules, r) + oh.v) ELSE Raise

\* table count read from tables_count only, without the num_workflows fallback
_calculate_data_volume_impact_NoLegacy(rules, r) ==
    IF "data_volume" \notin DOMAIN r THEN Ok(0)
    ELSE Times(RGet(r, "tables_count", Num(1)),
               Lookup(rules.data_volume_multipliers, r["data_volume"], 0),
               IsInt(rules, rules.data_volume_multipliers, r["data_volume"]))

_calculate_data_volume_impact(rules, r) ==
    IF "data_volume" \notin DOMAIN r THEN Ok(0)
    ELSE Times(tables_count(r), Lookup(rules.data_volume_multipliers, r["data_volume"], 0),
               IsInt(rules, rules.data_volume_multipliers, r["data_volume"]))

\* the legacy mapping applied to every label that is not a key
_calculate_tool_setup_AnyLabel(rules, r) ==
    LET commercial_tool ==
            RGet(r, "commercial_tool", RGet(r, "dq_tool_status", Str(ToolNone)))
        commercial ==
            IF InTbl(rules.tool_setup, commercial_tool)
            THEN rules.tool_setup[commercial_tool.s]
            ELSE IF commercial_tool.t = "str"
                 THEN IF ContainsExisting(commercial_tool.s)
                      THEN TGet(rules.tool_setup, ToolHave, 2 * Unit)
                      ELSE TGet(rules.tool_setup, ToolAcquire, 3 * Unit)
                 ELSE 0
        datawash_installation == RGet(r, "datawash_installation", Str(WashNo))
        datawash_days == Lookup(rules.datawash_installation, datawash_installation, 0)
    IN  Ok(commercial + datawash_days)

_calculate_tool_setup(rules, r) ==
    LET commercial_tool ==
            RGet(r, "commercial_tool", RGet(r, "dq_tool_status", Str(ToolNone)))
        commercial ==
            IF InTbl(rules.tool_setup, commercial_tool)
            THEN rules.tool_setup[commercial_tool.s]
            ELSE IF commercial_tool.t = "str" /\ commercial_tool.s \in {ToolHave, ToolOther}
                 THEN IF ContainsExisting(commercial_tool.s)
                      THEN TGet(rules.tool_setup, ToolHave, 2 * Unit)
                      ELSE TGet(rules.tool_setup, ToolAcquire, 3 * Unit)
                 ELSE 0
        datawash_installation == RGet(r, "datawash_installation", Str(WashNo))
        datawash_days == Lookup(rules.datawash_installation, datawash_installation, 0)
    IN  Ok(commercial + datawash_days)

_calculate_cloud_integration(rules, r) ==
    Ok(Lookup(rules.cloud_integration, RGet(r, "cloud_platform", Str(CloudNA)), 0))

\* governance setup charged when governance_maturity is true
_calculate_additional_requirements_Inverted(rules, r) ==
    LET ar == rules.additional_requirements
        governance == IF Truthy(RGet(r, "governance_maturity", Bool(FALSE)))
                      THEN TGet(ar, "governance_setup", 3 * Unit) ELSE 0
        compliance == IF Truthy(RGet(r, "compliance_req", Bool(FALSE)))
                      THEN TGet(ar, "compliance", 2 * Unit) ELSE 0
        historical == IF Truthy(RGet(r, "historical_analysis", Bool(FALSE)))
                      THEN Times(tables_count(r),
                                 TGet(ar, "historical_analysis_per_workflow", 2 * Unit),
                                 IsInt(rules, ar, Str("historical_analysis_per_workflow")))
                      ELSE Ok(0)
        integration == IF Truthy(RGet(r, "system_integration", Bool(FALSE)))
                       THEN TGet(ar, "system_integration", 3 * Unit) ELSE 0
    IN  IF historical.ok /\ "str" \notin DOMAIN historical
        THEN Ok(governance + compliance + historical.v + integration)
        ELSE Raise

\* "additional_days += tables_count * per_workflow": a str product raises here
_calculate_additional_requirements(rules, r) ==
    LET ar == rules.additional_requirements
        governance == IF ~Truthy(RGet(r, "governance_maturity", Bool(FALSE)))
                      THEN TGet(ar, "governance_setup", 3 * Unit) ELSE 0
        compliance == IF Truthy(RGet(r, "compliance_req", Bool(FALSE)))
                      THEN TGet(ar, "compliance", 2 * Unit) ELSE 0
        historical == IF Truthy(RGet(r, "historical_analysis", Bool(FALSE)))
                      THEN Times(tables_count(r),
                                 TGet(ar, "historical_analysis_per_workflow", 2 * Unit),
                                 IsInt(rules, ar, Str("historical_analysis_per_workflow")))
                      ELSE Ok(0)
        integration == IF Truthy(RGet(r, "system_integration", Bool(FALSE)))
                       THEN TGet(ar, "system_integration", 3 * Unit) ELSE 0
    IN  IF historical.ok /\ "str" \notin DOMAIN historical
        THEN Ok(governance + compliance + historical.v + integration)
        ELSE Raise

\* the seven components after Base Service, in evaluation order
Components(rules, r) ==
    << [k |-> "Workflow Complexity",     c |-> _calculate_workflow_complexity(rules, r)],
       [k |-> "Data Integration",        c |-> _calculate_integration_complexity(rules, r)],
       [k |-> "DQ Rules Development",    c |-> _calculate_rules_development(rules, r)],
       [k |-> "Data Volume Impact",      c |-> _calculate_data_volume_impact(rules, r)],
       [k |-> "Tool Setup",              c |-> _calculate_tool_setup(rules, r)],
       [k |-> "Cloud Integration",       c |-> _calculate_cloud_integration(rules, r)],
       [k |-> "Additional Requirements", c |-> _calculate_additional_requirements(rules, r)] >>

\* every component kept, whatever its sign
Retained_Always(c) == TRUE

\* a component of zero days kept as well
Retained_NonNegative(c) == c.v >= 0

\* "if days > 0: breakdown[name] = days"
Retained(c) == c.v > 0

RECURSIVE BuildBreakdown(_, _, _)
BuildBreakdown(bd, comps, i) ==
    IF i > Len(comps) THEN bd
    ELSE BuildBreakdown(
            IF Retained(comps[i].c) THEN Append(bd, [k |-> comps[i].k, v |-> comps[i].c.v])
            ELSE bd,
            comps, i + 1)

RECURSIVE SumValues(_, _)
SumValues(bd, i) == IF i > Len(bd) THEN 0 ELSE bd[i].v + SumValues(bd, i + 1)

\* max(int(total_days), minimum_project_days)
ClampTotal(sum, minimum) == Max(PyInt(sum), minimum)

NoResult == [raised |-> FALSE, total_days |-> 0, breakdown |-> <<>>]

\* the breakdown topped up to the minimum when the clamp applies
calculate_working_days_ToppedUp(rules, r) ==
    LET comps == Components(rules, r)
        breakdown == BuildBreakdown(
            << [k |-> "Base Service (Phases 0-3)", v |-> rules.base_service_days * Unit] >>,
            comps, 1)
        sum == SumValues(breakdown, 1)
        total_days == ClampTotal(sum, rules.minimum_project_days)
    IN  IF \E i \in 1..Len(comps) : ~comps[i].c.ok \/ "str" \in DOMAIN comps[i].c
        THEN [raised |-> TRUE, total_days |-> 0, breakdown |-> <<>>]
        ELSE [raised |-> FALSE,
              total_days |-> total_days,
              breakdown |->
                 IF total_days * Unit > sum
                 THEN Append(breakdown, [k |-> "Minimum Project Adjustment",
                                         v |-> total_days * Unit - sum])
                 ELSE breakdown]

\* a component that raised ends the call, and so does "if days > 0" on a str
calculate_working_days(rules, r) ==
    LET comps == Components(rules, r)
        breakdown == BuildBreakdown(
            << [k |-> "Base Service (Phases 0-3)", v |-> rules.base_service_days * Unit] >>,
            comps, 1)
    IN  IF \E i \in 1..Len(comps) : ~comps[i].c.ok \/ "str" \in DOMAIN comps[i].c
        THEN [raised |-> TRUE, total_days |-> 0, breakdown |-> <<>>]
        ELSE [raised |-> FALSE,
              total_days |-> ClampTotal(SumValues(breakdown, 1), rules.minimum_project_days),
              breakdown |-> breakdown]

(***************************************************************************)
(* config/schema.py: structural validation                                 *)
(***************************************************************************)
QuestionTypes == {"number_input", "selectbox", "radio", "checkbox"}
ComplexityLevels == {"basic", "advanced"}

SeqToSet(q) == {q[i] : i \in 1..Len(q)}

Err(code, subject) == [e |-> code, on |-> subject]

validate_question_config(question_id, q) ==
    (IF q.type \notin QuestionTypes THEN {Err("invalid type", question_id)} ELSE {})
    \cup
    (IF q.complexity_level \notin ComplexityLevels
     THEN {Err("invalid complexity level", question_id)} ELSE {})
    \cup
    (IF q.type = "number_input"
     THEN IF q.min_value.t = "none" \/ q.max_value.t = "none"
          THEN {Err("requires min_value and max_value", question_id)}
          ELSE IF q.min_value.n >= q.max_value.n
               THEN {Err("min_value must be less than max_value", question_id)}
               ELSE {}
     ELSE {})
    \cup
    (IF q.type \in {"selectbox", "radio"} /\ Len(q.options) < 2
     THEN {Err("requires at least 2 options", question_id)} ELSE {})
    \cup
    (IF q.depends_on # "" /\ q.depends_value = ""
     THEN {Err("depends_on requires depends_value", question_id)} ELSE {})

\* the seven tables the non-negativity loop covers
CheckedTables(rules) ==
    << rules.workflow_multipliers, rules.integration_complexity,
       rules.data_volume_multipliers, rules.existing_rules_impact,
       rules.tool_setup, rules.cloud_integration, rules.additional_requirements >>

\* base_service_days is not compared with minimum_project_days
validate_calculation_rules_NoOrder(rules) ==
    (IF rules.base_service_days <= 0
     THEN {Err("base_service_days must be positive", "")} ELSE {})
    \cup
    (IF rules.minimum_project_days <= 0
     THEN {Err("minimum_project_days must be positive", "")} ELSE {})
    \cup
    { Err("negative multiplier", key) :
        key \in { k \in UNION {DOMAIN CheckedTables(rules)[i] : i \in 1..7} :
                    \E i \in 1..7 : k \in DOMAIN CheckedTables(rules)[i]
                                    /\ CheckedTables(rules)[i][k] < 0 } }

validate_calculation_rules(rules) ==
    (IF rules.base_service_days <= 0
     THEN {Err("base_service_days must be positive", "")} ELSE {})
    \cup
    (IF rules.minimum_project_days <= 0
     THEN {Err("minimum_project_days must be positive", "")} ELSE {})
    \cup
    (IF rules.base_service_days < rules.minimum_project_days
     THEN {Err("base_service_days should be >= minimum_project_days", "")} ELSE {})
    \cup
    { Err("negative multiplier", key) :
        key \in { k \in UNION {DOMAIN CheckedTables(rules)[i] : i \in 1..7} :
                    \E i \in 1..7 : k \in DOMAIN CheckedTables(rules)[i]
                                    /\ CheckedTables(rules)[i][k] < 0 } }

\* only the questions are validated
validate_config_QuestionsOnly(c) ==
    UNION { validate_question_config(qid, c.questions[qid]) : qid \in DOMAIN c.questions }

validate_config(c) ==
    UNION { validate_question_config(qid, c.questions[qid]) : qid \in DOMAIN c.questions }
    \cup validate_calculation_rules(c.calculation_rules)
    \cup { Err("missing UI section", c.questions[qid].section) :
             qid \in { x \in DOMAIN c.questions :
                         c.questions[x].section \notin SeqToSet(c.ui_sections) } }
    \cup { Err("undefined questions in level", level) :
             level \in { l \in DOMAIN c.complexity_levels :
                           /\ ~c.complexity_levels[l].all
                           /\ SeqToSet(c.complexity_levels[l].show_questions)
                                 \ DOMAIN c.questions # {} } }
    \cup { Err("depends on undefined question", qid) :
             qid \in { x \in DOMAIN c.questions :
                         /\ c.questions[x].depends_on # ""
                         /\ c.questions[x].depends_on \notin DOMAIN c.questions } }
    \cup { Err("depends on value not in options", qid) :
             qid \in { x \in DOMAIN c.questions :
                         /\ c.questions[x].depends_on # ""
                         /\ c.questions[x].depends_on \in DOMAIN c.questions
                         /\ c.questions[x].depends_value \notin
                              SeqToSet(c.questions[c.questions[x].depends_on].options) } }

(***************************************************************************)
(* Configuration documents the source file can hold                        *)
(***************************************************************************)
\* QuestionConfig as _parse_config builds it from a question that declares no
\* default: question_data.get('default') is None
Question(type, section, options, lo, hi, optional, dep, depval) ==
    [type |-> type, section |-> section, complexity_level |-> "basic",
     options |-> options, min_value |-> lo, max_value |-> hi, default |-> NoneV,
     optional |-> optional, depends_on |-> dep, depends_value |-> depval]

QuestionIds ==
    << "tables_count", "workflow_complexity", "data_sources", "existing_rules",
       "rules_count", "commercial_tool", "cloud_platform", "governance_maturity" >>

Questions ==
    [qid \in SeqToSet(QuestionIds) |->
        CASE qid = "tables_count" ->
               Question("number_input", "Project Scope", <<>>, Num(1), Num(10), FALSE, "", "")
          [] qid = "workflow_complexity" ->
               Question("selectbox", "Project Scope", <<WfSimple, WfComplex>>,
                        NoneV, NoneV, FALSE, "", "")
          [] qid = "data_sources" ->
               Question("selectbox", "Project Scope", <<IntSingle, IntComplex>>,
                        NoneV, NoneV, FALSE, "", "")
          [] qid = "existing_rules" ->
               Question("radio", "Data Quality", <<RulesNotDoc, RulesDoc>>,
                        NoneV, NoneV, FALSE, "", "")
          [] qid = "rules_count" ->
               Question("number_input", "Data Quality", <<>>, Num(1), Num(50), TRUE, "", "")
          [] qid = "commercial_tool" ->
               Question("selectbox", "Tools", <<ToolNone, ToolHave, ToolAcquire>>,
                        NoneV, NoneV, TRUE, "", "")
          [] qid = "cloud_platform" ->
               Question("selectbox", "Tools", <<CloudNA, CloudAWS>>,
                        NoneV, NoneV, TRUE, "commercial_tool", ToolHave)
          [] OTHER ->
               Question("checkbox", "Data Quality", <<>>, NoneV, NoneV, TRUE, "", "") ]

Level(all, list) == [all |-> all, show_questions |-> list]

Levels ==
    [l \in {"basic", "advanced"} |->
        IF l = "basic"
        THEN Level(FALSE, <<"tables_count", "workflow_complexity",
                            "data_sources", "existing_rules">>)
        ELSE Level(TRUE, <<>>)]

Sections == << "Project Scope", "Data Quality", "Tools" >>

\* ints: the document writes whole-day coefficients as YAML integers
Rules(base, minimum, wf, ic, legacy, vol, oh, er, tool, wash, cloud, ar, ints) ==
    [base_service_days |-> base, minimum_project_days |-> minimum,
     int_coefficients |-> ints,
     workflow_multipliers |-> wf, integration_complexity |-> ic,
     integration_complexity_legacy |-> legacy, data_volume_multipliers |-> vol,
     rules_overhead |-> oh, existing_rules_impact |-> er, tool_setup |-> tool,
     datawash_installation |-> wash, cloud_integration |-> cloud,
     additional_requirements |-> ar]

\* the end-to-end scenario's rule set: every table not named is empty
ScenarioRules ==
    Rules(9, 5, WfComplex :> 8, IntComplex :> 6, EmptyTbl, EmptyTbl, EmptyTbl,
          RulesNotDoc :> 10, EmptyTbl, EmptyTbl, EmptyTbl, "governance_setup" :> 6, FALSE)

\* a fully populated rule set, its coefficients written as integers
FullRules ==
    Rules(9, 5,
          WfSimple :> 2 @@ WfComplex :> 8,
          IntSingle :> 0 @@ IntComplex :> 6,
          IntLegacy :> 5 @@ IntComplex :> 3,
          VolSmall :> 0 @@ VolLarge :> 3,
          "base_rules_included" :> 20 @@ "additional_rules_per_5" :> 1,
          RulesNotDoc :> 10 @@ RulesDoc :> 1,
          ToolNone :> 0 @@ ToolHave :> 2 @@ ToolAcquire :> 6,
          WashNo :> 0 @@ WashYes :> 20,
          CloudNA :> 0 @@ CloudAWS :> 4,
          "governance_setup" :> 6 @@ "compliance" :> 4
             @@ "historical_analysis_per_workflow" :> 4 @@ "system_integration" :> 6,
          TRUE)

\* base_service_days below minimum_project_days: the clamp takes effect
ClampRules ==
    Rules(3, 12, WfSimple :> 1, EmptyTbl, EmptyTbl, EmptyTbl, EmptyTbl,
          RulesNotDoc :> 0, EmptyTbl, EmptyTbl, EmptyTbl, "governance_setup" :> 1, FALSE)

\* negative coefficients in the tables the validation loop does not cover
NegOverheadRules ==
    Rules(9, 5, WfSimple :> 1, EmptyTbl, IntLegacy :> -2 @@ IntSingle :> -20, EmptyTbl,
          "base_rules_included" :> 20 @@ "additional_rules_per_5" :> -2,
          RulesNotDoc :> 10, EmptyTbl, WashYes :> -4, EmptyTbl, EmptyTbl, FALSE)

\* negative scalars and a negative checked coefficient
NegativeRules ==
    Rules(-3, -5, WfSimple :> 1 @@ WfComplex :> -8, EmptyTbl, EmptyTbl, EmptyTbl, EmptyTbl,
          RulesNotDoc :> 0, EmptyTbl, EmptyTbl, EmptyTbl, "governance_setup" :> 0, FALSE)

Doc(ids, questions, levels, sections, rules) ==
    [question_ids |-> ids, questions |-> questions, complexity_levels |-> levels,
     ui_sections |-> sections, calculation_rules |-> rules]

ScenarioDoc    == Doc(QuestionIds, Questions, Levels, Sections, ScenarioRules)
FullDoc        == Doc(QuestionIds, Questions, Levels, Sections, FullRules)
ClampDoc       == Doc(QuestionIds, Questions, Levels, Sections, ClampRules)
NegOverheadDoc == Doc(QuestionIds, Questions, Levels, Sections, NegOverheadRules)
NegativeDoc    == Doc(QuestionIds, Questions, Levels, Sections, NegativeRules)

\* a structurally invalid document: a level lists an undeclared question, a
\* numeric question has min = max, a choice question has no option, and a
\* section is not declared
BadQuestionsDoc ==
    Doc(QuestionIds,
        [Questions EXCEPT !["tables_count"].min_value = Num(10),
                          !["rules_count"].optional = FALSE,
                          !["commercial_tool"].options = <<>>],
        [Levels EXCEPT !["basic"] = Level(FALSE, <<"tables_count", "ghost">>)],
        << "Project Scope", "Data Quality" >>,
        FullRules)

\* a structurally invalid document: a dependency on an undeclared question, a
\* dependency on a value the referenced question does not offer, a choice
\* question with one option, an unknown type and an unknown complexity level
BadDependenciesDoc ==
    Doc(QuestionIds,
        [Questions EXCEPT !["cloud_platform"].depends_on = "ghost",
                          !["governance_maturity"].depends_on = "commercial_tool",
                          !["governance_maturity"].depends_value = "Nope",
                          !["governance_maturity"].type = "slider",
                          !["workflow_complexity"].options = <<WfSimple>>,
                          !["rules_count"].complexity_level = "expert"],
        Levels, Sections, FullRules)

\* a valid document kept at another path: the sections are declared in another
\* order, the basic level shows other questions, cloud_platform is a
\* non-optional question that depends on commercial_tool, and the questions
\* declare defaults, the one of data_sources not among its options
AlternativeDoc ==
    Doc(QuestionIds,
        [Questions EXCEPT !["cloud_platform"].optional = FALSE,
                          !["tables_count"].default = Num(5),
                          !["workflow_complexity"].default = Str(WfComplex),
                          !["data_sources"].default = Str("Multiple locations (2-3 sources)"),
                          !["existing_rules"].default = Str(RulesDoc),
                          !["rules_count"].default = Num(20),
                          !["cloud_platform"].default = Str(CloudAWS),
                          !["governance_maturity"].default = Bool(TRUE)],
        [Levels EXCEPT !["basic"] =
            Level(FALSE, <<"tables_count", "commercial_tool", "cloud_platform">>)],
        << "Tools", "Project Scope", "Data Quality" >>,
        FullRules)

\* the document export_config writes holds the app_config section alone:
\* parsed, it has no question, no level and no section, and the rule set
\* _parse_config builds for a document without calculation_rules
ExportedDoc ==
    Doc(<<>>, EmptyTbl, EmptyTbl, <<>>,
        Rules(9, 5, EmptyTbl, EmptyTbl, EmptyTbl, EmptyTbl, EmptyTbl, EmptyTbl,
              EmptyTbl, EmptyTbl, EmptyTbl, EmptyTbl, FALSE))

ExportedFile == "exported"

\* configuration objects are held by reference: a name stands for the document
Docs == {"scenario", "full", "clamp", "negative overhead", "negative", "bad questions",
         "bad dependencies", "alternative", ExportedFile}

Content(name) ==
    CASE name = "scenario"          -> ScenarioDoc
      [] name = "full"              -> FullDoc
      [] name = "clamp"             -> ClampDoc
      [] name = "negative overhead" -> NegOverheadDoc
      [] name = "negative"          -> NegativeDoc
      [] name = "bad questions"     -> BadQuestionsDoc
      [] name = "bad dependencies"  -> BadDependenciesDoc
      [] name = "alternative"       -> AlternativeDoc
      [] name = ExportedFile        -> ExportedDoc

(***************************************************************************)
(* config/loader.py                                                        *)
(***************************************************************************)
NoConfig == "None"

MissingFile     == "missing file"
UnparsableFile  == "unparsable file"
UnsupportedFile == "unsupported extension"
EmptyFile       == "empty file"

\* the contents the default path takes: documents written to it, and the files
\* that cannot be loaded
Files == {"full", "negative overhead", "clamp", "bad questions", "bad dependencies",
          MissingFile, UnparsableFile, UnsupportedFile, EmptyFile}

\* the contents the default path takes while requests are validated
RequestFiles == {"full", "bad questions", MissingFile, UnparsableFile, UnsupportedFile}

\* the paths a loader can be given, and the document kept at the other path
DefaultPath == "default"
Paths == {DefaultPath, "custom"}
CustomFile == "alternative"

\* the content of the file at config_path
SourceAt(path, f) == IF path = DefaultPath THEN f ELSE CustomFile

\* _load_config_file returns what the file holds (None for an empty YAML
\* file) or raises
Readable(f) == f \in Docs \cup {EmptyFile}

\* _validate_config raises exactly when validate_config reports errors
Valid(c) == validate_config(Content(c)) = {}

NoError == [message |-> "", violations |-> {}]

NoException == [raised |-> "", message |-> "", violations |-> {}]

Exception(type, message, violations) ==
    [raised |-> type, message |-> message, violations |-> violations]

\* ConfigLoader._load_config_file: the exception it raises, if any
_load_config_file(f) ==
    CASE f = MissingFile ->
           Exception("FileNotFoundError", "Configuration file not found", {})
      [] f = UnsupportedFile ->
           Exception("ValueError", "Unsupported configuration file format", {})
      [] f = UnparsableFile ->
           Exception("ValueError", "Invalid configuration file format", {})
      [] OTHER -> NoException

\* ConfigLoader._parse_config: the exception it raises, if any: config_data.get
\* fails on the None of an empty file.  For a document it builds
\* the configuration with the declarations of config/schema.py, reading every
\* key of the document with a default.  The declarations it uses that
\* schema.py does not hold (ReportConfig, CompanyInfo, QuickEstimateConfig,
\* QuickEstimateDefaults, and the fields sidebar_title, title,
\* additional_service_days, quick_estimate_config and report_config) are taken
\* to accept what the loader passes, as the specification's configuration
\* document has them
_parse_config(f) ==
    IF f = EmptyFile
    THEN Exception("AttributeError", "'NoneType' object has no attribute 'get'", {})
    ELSE NoException

\* ConfigLoader._validate_config: the exception it raises, if any
_validate_config(c) ==
    IF validate_config(Content(c)) # {}
    THEN Exception("ConfigurationError", "Configuration validation errors",
                   validate_config(Content(c)))
    ELSE NoException

\* the outcome of a load that lets the exception of a failed step escape
Failed_Unwrapped(e, cached) ==
    [outcome |-> e.raised, returned |-> NoConfig, cached |-> cached,
     error |-> [message |-> e.message, violations |-> e.violations]]

\* "except Exception as e: raise ConfigurationError(f'Failed to load
\* configuration: {str(e)}')": the outcome of a load whose step raised e
Failed(e, cached) ==
    [outcome |-> "ConfigurationError", returned |-> NoConfig, cached |-> cached,
     error |-> [message |-> e.message, violations |-> e.violations]]

Loaded(c) == [outcome |-> "returned", returned |-> c, cached |-> c, error |-> NoError]

\* ConfigLoader.load_config: the outcome and the loader state it leaves
load_config(cached, f, reload) ==
    IF cached # NoConfig /\ ~reload
    THEN Loaded(cached)
    ELSE IF ~Readable(f)
         THEN Failed(_load_config_file(f), cached)
         ELSE IF _parse_config(f).raised # ""
              THEN Failed(_parse_config(f), cached)
              ELSE IF _validate_config(f).raised # ""
                   THEN Failed(_validate_config(f), f)
                   ELSE Loaded(f)

\* ConfigLoader.get_questions_for_complexity
get_questions_for_complexity(c, complexity_level) ==
    IF c = NoConfig THEN [raised |-> TRUE, list |-> <<>>]
    ELSE IF complexity_level \notin DOMAIN Content(c).complexity_levels
         THEN [raised |-> TRUE, list |-> <<>>]
         ELSE IF Content(c).complexity_levels[complexity_level].all
              THEN [raised |-> FALSE, list |-> Content(c).question_ids]
              ELSE [raised |-> FALSE,
                    list |-> Content(c).complexity_levels[complexity_level].show_questions]

\* sections[section].append(question_id), the section created when new
AppendToSection(sections, section, question_id) ==
    IF \E j \in 1..Len(sections) : sections[j].section = section
    THEN [j \in 1..Len(sections) |->
            IF sections[j].section = section
            THEN [section |-> section,
                  questions |-> Append(sections[j].questions, question_id)]
            ELSE sections[j]]
    ELSE Append(sections, [section |-> section, questions |-> <<question_id>>])

\* the loop over self._config.questions.items()
RECURSIVE SectionsLoop(_, _, _, _)
SectionsLoop(sections, c, allowed_questions, i) ==
    IF i > Len(c.question_ids) THEN sections
    ELSE LET question_id == c.question_ids[i]
         IN  SectionsLoop(
                IF question_id \in allowed_questions
                THEN AppendToSection(sections, c.questions[question_id].section,
                                     question_id)
                ELSE sections,
                c, allowed_questions, i + 1)

\* ConfigLoader.get_questions_by_section: a dict, held as the sequence of its
\* items in insertion order
get_questions_by_section(c, complexity_level) ==
    LET allowed == get_questions_for_complexity(c, complexity_level)
    IN  IF allowed.raised THEN [raised |-> TRUE, sections |-> <<>>]
        ELSE [raised |-> FALSE,
              sections |-> SectionsLoop(<<>>, Content(c), SeqToSet(allowed.list), 1)]

\* QuestionConfig.depends_value as a response value
DependsValue(q) == IF q.depends_value = "" THEN NoneV ELSE Str(q.depends_value)

\* the dependency is not looked at
should_show_question_IgnoreDependency(c, question_id, r) ==
    IF c = NoConfig THEN [raised |-> TRUE, shown |-> FALSE]
    ELSE [raised |-> FALSE, shown |-> question_id \in DOMAIN Content(c).questions]

\* ConfigLoader.should_show_question
should_show_question(c, question_id, r) ==
    IF c = NoConfig THEN [raised |-> TRUE, shown |-> FALSE]
    ELSE IF question_id \notin DOMAIN Content(c).questions
         THEN [raised |-> FALSE, shown |-> FALSE]
         ELSE LET question_config == Content(c).questions[question_id]
              IN  IF question_config.depends_on # ""
                  THEN IF question_config.depends_on \notin DOMAIN r
                       THEN [raised |-> FALSE, shown |-> FALSE]
                       ELSE IF r[question_config.depends_on] # DependsValue(question_config)
                            THEN [raised |-> FALSE, shown |-> FALSE]
                            ELSE [raised |-> FALSE, shown |-> TRUE]
                  ELSE [raised |-> FALSE, shown |-> TRUE]

NoQuery == [op |-> "none", arg |-> "", r |-> EmptyTbl, raised |-> FALSE,
            shown |-> FALSE, sections |-> <<>>]

(***************************************************************************)
(* calculator/breakdown.py                                                 *)
(***************************************************************************)
\* days / total_days * 100 as the exact fraction num / den
Percentage(days, total_days) == [num |-> days * 100, den |-> total_days * Unit]

\* days / total_days raises ZeroDivisionError for some retained row
Divides(bd, total_days) ==
    total_days = 0 /\ \E i \in 1..Len(bd) : bd[i].v > 0

\* the rows of BreakdownGenerator.generate_breakdown_dataframe
BreakdownRows(bd, total_days) ==
    LET kept == SelectSeq(bd, LAMBDA e : e.v > 0)
    IN  [i \in 1..Len(kept) |->
            [Component |-> kept[i].k, Days |-> PyInt(kept[i].v),
             Raw_Days |-> kept[i].v,
             Raw_Percentage |-> Percentage(kept[i].v, total_days)]]

NoReport == [call |-> "none", raised |-> FALSE, rows |-> <<>>]

generate_breakdown_dataframe(bd, total_days) ==
    IF Divides(bd, total_days)
    THEN [call |-> "dataframe", raised |-> TRUE, rows |-> <<>>]
    ELSE [call |-> "dataframe", raised |-> FALSE, rows |-> BreakdownRows(bd, total_days)]

\* df = self.generate_breakdown_dataframe(...); return df.to_csv(index=False)
generate_csv_breakdown(bd, total_days) ==
    [generate_breakdown_dataframe(bd, total_days) EXCEPT !.call = "csv"]

\* the COST BREAKDOWN lines of generate_summary_report
generate_summary_report(bd, total_days) ==
    IF Divides(bd, total_days)
    THEN [call |-> "summary", raised |-> TRUE, rows |-> <<>>]
    ELSE [call |-> "summary", raised |-> FALSE, rows |-> BreakdownRows(bd, total_days)]

(***************************************************************************)
(* calculator/engine.py: validation                                        *)
(***************************************************************************)
NoRequired == [none |-> TRUE, list |-> <<>>]
Required(list) == [none |-> FALSE, list |-> list]

QuickRequiredFields ==
    << "tables_count", "workflow_complexity", "data_sources", "existing_rules" >>

\* an absent answer is never reported
QuestionError_NoRequired(q, question_id, r, required_only) ==
    IF question_id \in DOMAIN r
    THEN LET value == r[question_id]
         IN  IF q.type = "number_input"
             THEN IF ~IsNumber(value) \/ value.n < 0 THEN "Must be a positive number"
                  ELSE IF q.min_value.t # "none" /\ value.n < q.min_value.n
                       THEN "Must be at least"
                       ELSE IF q.max_value.t # "none" /\ value.n > q.max_value.n
                            THEN "Must be at most"
                            ELSE ""
             ELSE IF q.type \in {"selectbox", "radio"}
                  THEN IF Len(q.options) > 0
                          /\ ~(value.t = "str" /\ value.s \in SeqToSet(q.options))
                       THEN "Must be one of"
                       ELSE ""
                  ELSE ""
    ELSE ""

\* the message recorded for one question, "" when none is
QuestionError(q, question_id, r, required_only) ==
    IF question_id \in DOMAIN r
    THEN LET value == r[question_id]
         IN  IF q.type = "number_input"
             THEN IF ~IsNumber(value) \/ value.n < 0 THEN "Must be a positive number"
                  ELSE IF q.min_value.t # "none" /\ value.n < q.min_value.n
                       THEN "Must be at least"
                       ELSE IF q.max_value.t # "none" /\ value.n > q.max_value.n
                            THEN "Must be at most"
                            ELSE ""
             ELSE IF q.type \in {"selectbox", "radio"}
                  THEN IF Len(q.options) > 0
                          /\ ~(value.t = "str" /\ value.s \in SeqToSet(q.options))
                       THEN "Must be one of"
                       ELSE ""
                  ELSE ""
    ELSE IF ~q.optional
            /\ (required_only.none \/ question_id \in SeqToSet(required_only.list))
         THEN "This field is required"
         ELSE ""

NoValidation == [call |-> "none", level |-> "", raised |-> FALSE, errors |-> EmptyTbl]

\* a validation result together with the call that produced it
Called(call, level, v) ==
    [call |-> call, level |-> level, raised |-> v.raised, errors |-> v.errors]

validate_responses(engine_config, global_config, r, required_only, complexity_level) ==
    LET shown == IF Len(required_only.list) > 0
                 THEN [raised |-> FALSE, list |-> required_only.list]
                 ELSE get_questions_for_complexity(global_config, complexity_level)
        questions == Content(engine_config).questions
        questions_to_validate == SeqToSet(shown.list) \cap DOMAIN questions
        failing == { qid \in questions_to_validate :
                       QuestionError(questions[qid], qid, r, required_only) # "" }
    IN  IF shown.raised THEN [raised |-> TRUE, errors |-> EmptyTbl]
        ELSE [raised |-> FALSE,
              errors |-> [qid \in failing |->
                            QuestionError(questions[qid], qid, r, required_only)]]

\* every question of the advanced tier validated in place of the whitelist
validate_quick_responses_EveryQuestion(engine_config, global_config, r) ==
    validate_responses(engine_config, global_config, r, NoRequired, "advanced")

validate_quick_responses(engine_config, global_config, r) ==
    validate_responses(engine_config, global_config, r,
                       Required(QuickRequiredFields), "advanced")

(***************************************************************************)
(* Response sets                                                           *)
(***************************************************************************)
EmptyResponses == EmptyTbl

ScenarioResponses ==
    "tables_count" :> Num(3) @@ "workflow_complexity" :> Str(WfComplex)
    @@ "data_sources" :> Str(IntComplex) @@ "existing_rules" :> Str(RulesNotDoc)
    @@ "commercial_tool" :> Str(ToolNone) @@ "governance_maturity" :> Bool(FALSE)

MinimalResponses ==
    "tables_count" :> Num(2) @@ "workflow_complexity" :> Str(WfSimple)
    @@ "data_sources" :> Str(IntSingle) @@ "existing_rules" :> Str(RulesNotDoc)

LegacyResponses ==
    "integration_complexity" :> Str(IntLegacy) @@ "dq_rules_status" :> Str(RulesDoc)
    @@ "dq_tool_status" :> Str(ToolOther) @@ "historical_analysis" :> Bool(TRUE)
    @@ "data_volume" :> Str(VolLarge)

Profiles == {EmptyResponses, ScenarioResponses, MinimalResponses, LegacyResponses}

\* the values a request may give each field
AnswerValues(k) ==
    CASE k = "tables_count" ->
           {Num(-1), Num(1), Num(2), Num(3), Num(5), Str("3"), NoneV}
      [] k = "num_workflows" -> {Num(2), Num(3)}
      [] k = "workflow_complexity" -> {Str(WfSimple), Str(WfComplex), Str("Unknown")}
      [] k = "data_sources" -> {Str(IntSingle), Str(IntComplex)}
      [] k = "integration_complexity" -> {Str(IntComplex)}
      [] k = "existing_rules" -> {Str(RulesDoc), Str("Partial")}
      [] k = "rules_count" -> {Num(4), Num(5), Num(7), Num(10), Num(13), Str("15")}
      [] k = "data_volume" -> {Str(VolSmall), Str(VolLarge)}
      [] k = "commercial_tool" ->
           {Str(ToolHave), Str(ToolOther), Str(ToolAcquire), Str(ToolInHouse), Num(7)}
      [] k = "datawash_installation" -> {Str(WashYes)}
      [] k = "cloud_platform" -> {Str(CloudAWS)}
      [] k = "governance_maturity" -> {Bool(TRUE), Bool(FALSE)}
      [] k = "compliance_req" -> {Bool(TRUE)}
      [] k = "historical_analysis" -> {Bool(TRUE)}
      [] k = "system_integration" -> {Bool(TRUE)}

AnswerKeys ==
    {"tables_count", "num_workflows", "workflow_complexity", "data_sources",
     "integration_complexity", "existing_rules", "rules_count", "data_volume",
     "commercial_tool", "datawash_installation", "cloud_platform",
     "governance_maturity", "compliance_req", "historical_analysis",
     "system_integration"}

\* responses[k] = v
Put(r, k, v) == [x \in DOMAIN r \cup {k} |-> IF x = k THEN v ELSE r[x]]

\* del responses[k]
Drop(r, k) == [x \in DOMAIN r \ {k} |-> r[x]]

(***************************************************************************)
(* ui/generator.py: the questions form                                     *)
(***************************************************************************)
\* "question_config.min_value or 1": None and 0 give the other value
OrElse(v, d) == IF v.t = "none" \/ v.n = 0 THEN d ELSE v.n

\* st.number_input(min_value, max_value, value): the value the user wants
\* when it is in the range, else the initial value.  Defined for
\* min_value <= value <= max_value, which every document of AppFiles
\* declares; Streamlit rejects a widget whose initial value is out of range.
number_input(min_value, max_value, value, want) ==
    IF want.t = "num" /\ min_value <= want.n /\ want.n <= max_value
    THEN want ELSE Num(value)

\* st.selectbox(options, index) and st.radio(options, index): the option the
\* user wants, else the one at index (counted from 1 here); None when there
\* is no option
selectbox(options, index, want) ==
    IF Len(options) = 0 THEN NoneV
    ELSE IF want.t = "str" /\ want.s \in SeqToSet(options)
         THEN want ELSE Str(options[index])

\* UIGenerator._render_question: the value the widget returns when the user
\* wants the value want, None for an unknown question type
_render_question(q, want) ==
    LET \* "default_index = 0; if default and default in options:
        \* default_index = options.index(default)", counted from 1
        default_index ==
            IF q.default.t = "str" /\ q.default.s # ""
               /\ q.default.s \in SeqToSet(q.options)
            THEN CHOOSE i \in 1..Len(q.options) :
                    /\ q.options[i] = q.default.s
                    /\ \A j \in 1..(i - 1) : q.options[j] # q.default.s
            ELSE 1
    IN  CASE q.type = "number_input" ->
               \* value = "question_config.default or 1"
               number_input(OrElse(q.min_value, 1), OrElse(q.max_value, 100),
                            OrElse(q.default, 1), want)
          [] q.type \in {"selectbox", "radio"} -> selectbox(q.options, default_index, want)
          [] q.type = "checkbox" ->
               \* value = "question_config.default or False"
               IF want.t = "bool" THEN want
               ELSE IF q.default.t = "bool" THEN q.default ELSE Bool(FALSE)
          [] OTHER -> NoneV

\* UIGenerator._render_section_questions: current_responses after the
\* questions of one section were rendered
RECURSIVE _render_section_questions(_, _, _, _, _, _)
_render_section_questions(c, loader, question_ids, current_responses, u, i) ==
    IF i > Len(question_ids) THEN current_responses
    ELSE LET question_id == question_ids[i]
             response == _render_question(Content(c).questions[question_id],
                                          u[question_id])
             after ==
                 IF question_id \notin DOMAIN Content(c).questions
                 THEN current_responses
                 ELSE IF ~should_show_question(loader, question_id,
                                               current_responses).shown
                      THEN current_responses
                      ELSE IF response = NoneV THEN current_responses
                           ELSE Put(current_responses, question_id, response)
         IN  _render_section_questions(c, loader, question_ids, after, u, i + 1)

\* the questions get_questions_by_section returned under a section name
SectionQuestions(sections, section_name) ==
    IF \E j \in 1..Len(sections) : sections[j].section = section_name
    THEN sections[CHOOSE j \in 1..Len(sections) :
                     sections[j].section = section_name].questions
    ELSE <<>>

\* the loop over self.config.ui_sections
RECURSIVE FormLoop(_, _, _, _, _, _)
FormLoop(c, loader, sections, responses_so_far, u, n) ==
    IF n > Len(Content(c).ui_sections) THEN responses_so_far
    ELSE FormLoop(c, loader, sections,
                  _render_section_questions(
                      c, loader,
                      SectionQuestions(sections, Content(c).ui_sections[n]),
                      responses_so_far, u, 1),
                  u, n + 1)

\* UIGenerator.render_questions_form of a submitted form, u the values the
\* user wants; c is the generator's configuration, loader what its loader
\* holds.  An exception of get_questions_by_section leaves the method.
render_questions_form(c, loader, complexity_level, u) ==
    LET sections == get_questions_by_section(loader, complexity_level)
    IN  IF sections.raised THEN [raised |-> TRUE, responses |-> EmptyTbl]
        ELSE [raised |-> FALSE,
              responses |-> FormLoop(c, loader, sections.sections, EmptyTbl, u, 1)]

\* UIGenerator.render_complexity_selector
render_complexity_selector == "advanced"

(***************************************************************************)
(* app_refactored.py                                                       *)
(***************************************************************************)
\* QuickEstimateDefaults as _parse_config builds it from a document without
\* a quick_estimate_config
QuickEstimateDefaults ==
    "existing_rules" :> Str(RulesNotDoc) @@ "commercial_tool" :> Str(ToolNone)
    @@ "governance_maturity" :> Bool(FALSE) @@ "data_volume" :> Str(VolSmall)
    @@ "datawash_installation" :> Str(WashNo) @@ "compliance_req" :> Bool(FALSE)
    @@ "historical_analysis" :> Bool(FALSE) @@ "system_integration" :> Bool(FALSE)
    @@ "cloud_platform" :> Str(CloudNA)

\* the four widgets of the quick form: built from the question when the
\* configuration declares it, else from literals; the number inputs start at
\* the question's default, the choice widgets are given no index
QuickWidget(c, question_id, want) ==
    LET declared == question_id \in DOMAIN Content(c).questions
        q == Content(c).questions[question_id]
    IN  CASE question_id = "tables_count" ->
               IF declared
               THEN number_input(OrElse(q.min_value, 1), OrElse(q.max_value, 100),
                                 OrElse(q.default, 1), want)
               ELSE number_input(1, 100, 1, want)
          [] question_id = "rules_count" ->
               IF declared
               THEN number_input(OrElse(q.min_value, 1), OrElse(q.max_value, 100),
                                 OrElse(q.default, 15), want)
               ELSE number_input(1, 100, 15, want)
          [] question_id = "workflow_complexity" ->
               IF declared THEN selectbox(q.options, 1, want)
               ELSE selectbox(<<WfSimple, WfComplex>>, 1, want)
          [] question_id = "data_sources" ->
               IF declared THEN selectbox(q.options, 1, want)
               ELSE selectbox(<<IntSingle, "Multiple locations (2-3 sources)",
                                IntComplex>>, 1, want)

\* quick_responses of render_quick_estimate_mode: the four widgets' values
\* and the defaults for everything else
quick_responses(c, u) ==
    [question_id \in {"tables_count", "workflow_complexity", "rules_count",
                      "data_sources"} |-> QuickWidget(c, question_id, u[question_id])]
    @@ QuickEstimateDefaults

\* "if validation_errors:" taken as always false
HasErrors_Never(validation_errors) == FALSE

\* "if validation_errors:"
HasErrors(validation_errors) == DOMAIN validation_errors # {}

\* the validation call of calculate_results
calculate_results_validation(c, loader, r, is_quick_estimate, complexity_level) ==
    IF is_quick_estimate
    THEN Called("quick", "", validate_quick_responses(c, loader, r))
    ELSE Called("full", complexity_level,
                validate_responses(c, loader, r, NoRequired, complexity_level))

NoSession == [calculated |-> FALSE, total_days |-> 0, breakdown |-> <<>>,
              responses |-> EmptyTbl]

\* no calculate_results call has ended in this run
NoCall == [mode |-> "none", ended |-> "no", total_days |-> 0, breakdown |-> <<>>,
           errors |-> EmptyTbl]

(***************************************************************************)
(* Specification of the engine: one engine, requests answered and computed *)
(***************************************************************************)
Init ==
    /\ config \in {"scenario", "full", "clamp", "negative overhead", "negative"}
    /\ responses \in Profiles
    /\ pc = "input"
    /\ result = NoResult
    /\ validation = NoValidation
    /\ edits = 0
    /\ file = config
    /\ loader_config = config
    /\ returned = config
    /\ outcome = "returned"
    /\ error = NoError
    /\ loader_path = DefaultPath
    /\ query = NoQuery
    /\ report = NoReport
    /\ session = NoSession
    /\ calc_results = NoCall

Answer(k, v) ==
    /\ pc = "input"
    /\ edits < MaxEdits
    /\ responses' = Put(responses, k, v)
    /\ edits' = edits + 1
    /\ UNCHANGED <<config, pc, result, validation, file, loader_config, returned,
                   outcome, error, loader_path, query, report, session, calc_results>>

Calculate ==
    /\ pc = "input"
    /\ result' = calculate_working_days(Content(config).calculation_rules, responses)
    /\ pc' = "done"
    /\ UNCHANGED <<config, responses, validation, edits, file, loader_config,
                   returned, outcome, error, loader_path, query, report,
                   session, calc_results>>

\* one of the breakdown formatter's calls on the computed result
Format(call) ==
    /\ pc = "done"
    /\ ~result.raised
    /\ report' = CASE call = "dataframe" ->
                        generate_breakdown_dataframe(result.breakdown, result.total_days)
                   [] call = "csv" ->
                        generate_csv_breakdown(result.breakdown, result.total_days)
                   [] call = "summary" ->
                        generate_summary_report(result.breakdown, result.total_days)
    /\ pc' = "formatted"
    /\ UNCHANGED <<config, responses, result, validation, edits, file, loader_config,
                   returned, outcome, error, loader_path, query, session, calc_results>>

NewRequest ==
    /\ pc \in {"done", "formatted"}
    /\ pc' = "input"
    /\ result' = NoResult
    /\ report' = NoReport
    /\ UNCHANGED <<config, responses, validation, edits, file, loader_config,
                   returned, outcome, error, loader_path, query, session, calc_results>>

Next ==
    \/ \E k \in AnswerKeys : \E v \in AnswerValues(k) : Answer(k, v)
    \/ Calculate
    \/ \E call \in {"dataframe", "csv", "summary"} : Format(call)
    \/ NewRequest

Spec == Init /\ [][Next]_vars

(***************************************************************************)
(* Specification of the loader: the source file changes, the global        *)
(* loader loads and reloads it or is replaced by a loader of another path, *)
(* the application builds its engine from what the loader returns, and     *)
(* submitted response sets are validated                                   *)
(***************************************************************************)
\* answers a submitted form may hold in place of a valid minimal one
SubmittedValues(k) ==
    CASE k = "tables_count" -> {Num(-1), Num(0), Num(11), Str("3")}
      [] k = "workflow_complexity" -> {Str("Unknown")}
      [] k = "rules_count" -> {Num(4), Num(60)}
      [] k = "commercial_tool" -> {Str(ToolHave), Str(ToolOther)}
      [] k = "cloud_platform" -> {Str(CloudAWS)}
      [] k = "governance_maturity" -> {Bool(TRUE)}

SubmittedResponses ==
    {MinimalResponses, ScenarioResponses, EmptyResponses}
    \cup {Drop(MinimalResponses, k) : k \in DOMAIN MinimalResponses}
    \cup UNION {{Put(MinimalResponses, k, v) : v \in SubmittedValues(k)} :
                k \in {"tables_count", "workflow_complexity", "rules_count",
                       "commercial_tool", "cloud_platform", "governance_maturity"}}
    \cup {Put(Drop(MinimalResponses, "data_sources"), "rules_count", Num(60))}

LevelNames == {"basic", "advanced", "expert"}

\* a new global loader over a source file holding one of the given contents
LoaderStart(contents) ==
    /\ file \in contents
    /\ loader_config = NoConfig
    /\ config = NoConfig
    /\ responses = MinimalResponses
    /\ pc = "input"
    /\ result = NoResult
    /\ validation = NoValidation
    /\ edits = 0
    /\ returned = NoConfig
    /\ outcome = "none"
    /\ error = NoError
    /\ loader_path = DefaultPath
    /\ query = NoQuery
    /\ report = NoReport
    /\ session = NoSession
    /\ calc_results = NoCall

LoaderInit == LoaderStart(RequestFiles)

\* the configuration document is edited, removed or corrupted on disk
\* (the program is single-threaded: nothing happens inside a request, which
\* lasts from the validation call until the next submission)
WriteFile(f) ==
    /\ pc = "input"
    /\ f # file
    /\ file' = f
    /\ UNCHANGED <<config, responses, pc, result, validation, edits,
                   loader_config, returned, outcome, error, loader_path, query, report,
                   session, calc_results>>

\* ConfigLoader.export_config(output_path) on the global loader, output_path
\* being the source file at the default path: the file then holds the
\* app_config section alone.  Without a loaded configuration the call raises
\* and writes nothing.
ExportConfig ==
    /\ pc = "input"
    /\ loader_config # NoConfig
    /\ file # ExportedFile
    /\ file' = ExportedFile
    /\ UNCHANGED <<config, responses, pc, result, validation, edits,
                   loader_config, returned, outcome, error, loader_path, query, report,
                   session, calc_results>>

\* ConfigLoader.load_config(reload) on the global loader
LoadConfig(reload) ==
    LET r == load_config(loader_config, SourceAt(loader_path, file), reload)
    IN  /\ pc = "input"
        /\ loader_config' = r.cached
        /\ returned' = r.returned
        /\ outcome' = r.outcome
        /\ error' = r.error
        /\ UNCHANGED <<config, responses, pc, result, validation, edits, file,
                       loader_path, query, report, session, calc_results>>

\* get_config_loader(config_path): the global loader is replaced by a new one
GetConfigLoader(config_path) ==
    /\ pc = "input"
    /\ loader_path' = config_path
    /\ loader_config' = NoConfig
    /\ UNCHANGED <<config, responses, pc, result, validation, edits, file,
                   returned, outcome, error, query, report, session, calc_results>>

\* DQServiceCalculatorApp.load_configuration(reload): load, then build the engine
LoadConfiguration(reload) ==
    LET r == load_config(loader_config, SourceAt(loader_path, file), reload)
    IN  /\ pc = "input"
        /\ loader_config' = r.cached
        /\ returned' = r.returned
        /\ outcome' = r.outcome
        /\ error' = r.error
        /\ config' = IF r.outcome = "returned" THEN r.returned ELSE config
        /\ UNCHANGED <<responses, pc, result, validation, edits, file,
                       loader_path, query, report, session, calc_results>>

\* a form is submitted
Submit(r) ==
    /\ r # responses \/ pc # "input"
    /\ responses' = r
    /\ pc' = "input"
    /\ validation' = NoValidation
    /\ UNCHANGED <<config, result, edits, file, loader_config, returned, outcome,
                   error, loader_path, query, report, session, calc_results>>

\* CalculationEngine.validate_responses(responses, complexity_level=level)
Validate(level) ==
    /\ config # NoConfig
    /\ pc = "input"
    /\ validation' = Called("full", level,
            validate_responses(config, loader_config, responses, NoRequired, level))
    /\ pc' = "validated"
    /\ UNCHANGED <<config, responses, result, edits, file, loader_config, returned,
                   outcome, error, loader_path, query, report, session, calc_results>>

\* CalculationEngine.validate_quick_responses(responses)
ValidateQuick ==
    /\ config # NoConfig
    /\ pc = "input"
    /\ validation' = Called("quick", "",
            validate_quick_responses(config, loader_config, responses))
    /\ pc' = "validated"
    /\ UNCHANGED <<config, responses, result, edits, file, loader_config, returned,
                   outcome, error, loader_path, query, report, session, calc_results>>

LoaderNext ==
    \/ \E f \in RequestFiles : WriteFile(f)
    \/ ExportConfig
    \/ \E reload \in BOOLEAN : LoadConfig(reload)
    \/ \E config_path \in Paths : GetConfigLoader(config_path)
    \/ \E reload \in BOOLEAN : LoadConfiguration(reload)
    \/ \E r \in SubmittedResponses : Submit(r)
    \/ \E level \in LevelNames : Validate(level)
    \/ ValidateQuick

LoaderSpec == LoaderInit /\ [][LoaderNext]_vars

(***************************************************************************)
(* Specification of the loader's derived queries: the source file changes, *)
(* the global loader loads it or is replaced, and the section grouping and *)
(* the visibility of a question are asked of whatever the loader holds     *)
(***************************************************************************)
\* ConfigLoader.get_questions_by_section(complexity_level) on the global loader
GetQuestionsBySection(level) ==
    LET q == get_questions_by_section(loader_config, level)
    IN  /\ pc = "input"
        /\ query' = [op |-> "sections", arg |-> level, r |-> EmptyTbl,
                     raised |-> q.raised, shown |-> FALSE, sections |-> q.sections]
        /\ pc' = "queried"
        /\ UNCHANGED <<config, responses, result, validation, edits, file,
                       loader_config, returned, outcome, error, loader_path, report,
                       session, calc_results>>

\* ConfigLoader.should_show_question(question_id, responses) on the global loader
ShouldShowQuestion(question_id, r) ==
    LET q == should_show_question(loader_config, question_id, r)
    IN  /\ pc = "input"
        /\ query' = [op |-> "show", arg |-> question_id, r |-> r,
                     raised |-> q.raised, shown |-> q.shown, sections |-> <<>>]
        /\ pc' = "queried"
        /\ UNCHANGED <<config, responses, result, validation, edits, file,
                       loader_config, returned, outcome, error, loader_path, report,
                       session, calc_results>>

\* the caller is done with the answer
Answered ==
    /\ pc = "queried"
    /\ pc' = "input"
    /\ query' = NoQuery
    /\ UNCHANGED <<config, responses, result, validation, edits, file,
                   loader_config, returned, outcome, error, loader_path, report,
                   session, calc_results>>

QueryNext ==
    \/ \E f \in Files : WriteFile(f)
    \/ ExportConfig
    \/ \E reload \in BOOLEAN : LoadConfig(reload)
    \/ \E config_path \in Paths : GetConfigLoader(config_path)
    \/ \E level \in LevelNames : GetQuestionsBySection(level)
    \/ \E question_id \in SeqToSet(QuestionIds) \cup {"ghost"} :
          \E r \in {EmptyResponses, MinimalResponses, ScenarioResponses,
                    Put(MinimalResponses, "commercial_tool", Str(ToolHave)),
                    Put(MinimalResponses, "commercial_tool", NoneV)} :
             ShouldShowQuestion(question_id, r)
    \/ Answered

QueryInit == LoaderStart(Files)

QuerySpec == QueryInit /\ [][QueryNext]_vars

(***************************************************************************)
(* Specification of the application: the script runs once per interaction. *)
(* A run loads the configuration from the global loader and builds the     *)
(* engine and the form generator from it, renders the quick or the         *)
(* advanced form, and passes a submitted form to calculate_results, which  *)
(* validates, then computes; the caller stores the results in the session. *)
(* The source file changes between runs.                                   *)
(***************************************************************************)
\* the contents of the source file while the application runs
AppFiles == {"full", "alternative", "bad dependencies", ExportedFile, MissingFile}

\* the values a user wants to give the widgets, None for a widget the user
\* leaves untouched
FormChoices ==
    { [question_id \in SeqToSet(QuestionIds) |->
          IF question_id = "commercial_tool" THEN tool ELSE NoneV] :
        tool \in {NoneV, Str(ToolHave)} } \cup
    { "tables_count" :> Num(tc) @@ "workflow_complexity" :> Str(WfComplex)
      @@ "data_sources" :> Str(IntComplex) @@ "existing_rules" :> Str(RulesNotDoc)
      @@ "rules_count" :> Num(rc) @@ "commercial_tool" :> Str(tool)
      @@ "cloud_platform" :> Str(cloud) @@ "governance_maturity" :> Bool(FALSE) :
        tc \in {2, 3}, rc \in {5, 13}, tool \in {ToolNone, ToolHave},
        cloud \in {CloudNA, CloudAWS} }

AppInit == LoaderStart(AppFiles)

\* run(): load_configuration() with a new application object; st.stop()
\* when it fails
RunLoad ==
    LET r == load_config(loader_config, SourceAt(loader_path, file), FALSE)
    IN  /\ pc = "input"
        /\ loader_config' = r.cached
        /\ returned' = r.returned
        /\ outcome' = r.outcome
        /\ error' = r.error
        /\ config' = IF r.outcome = "returned" THEN r.returned ELSE NoConfig
        /\ pc' = IF r.outcome = "returned" THEN "loaded" ELSE "input"
        /\ responses' = EmptyTbl
        /\ validation' = NoValidation
        /\ result' = NoResult
        /\ calc_results' = NoCall
        /\ UNCHANGED <<edits, file, loader_path, query, report, session>>

\* Advanced mode: render_main_form(render_complexity_selector()); the run
\* goes on to calculate_results when the returned responses are not empty,
\* and ends when the form raised
RenderMainForm(u) ==
    /\ pc = "loaded"
    /\ responses' = render_questions_form(config, loader_config,
                                          render_complexity_selector, u).responses
    /\ pc' = IF responses' # EmptyTbl THEN "submitted" ELSE "input"
    /\ calc_results' = [NoCall EXCEPT !.mode = "Advanced"]
    /\ UNCHANGED <<config, result, validation, edits, file, loader_config, returned,
                   outcome, error, loader_path, query, report, session>>

\* Quick mode: render_quick_estimate_mode with the form submitted
RenderQuickEstimate(u) ==
    /\ pc = "loaded"
    /\ responses' = quick_responses(config, u)
    /\ pc' = "submitted"
    /\ calc_results' = [NoCall EXCEPT !.mode = "Quick"]
    /\ UNCHANGED <<config, result, validation, edits, file, loader_config, returned,
                   outcome, error, loader_path, query, report, session>>

\* the form is rendered and not submitted: the run ends
NotSubmitted ==
    /\ pc = "loaded"
    /\ pc' = "input"
    /\ UNCHANGED <<config, responses, result, validation, edits, file, loader_config,
                   returned, outcome, error, loader_path, query, report, session,
                   calc_results>>

\* calculate_results, first statement: the validation call; the exception it
\* raises ends calculate_results and the run
ValidateResponses ==
    LET v == calculate_results_validation(config, loader_config, responses, FALSE,
                                          render_complexity_selector)
    IN  /\ pc = "submitted"
        /\ validation' = v
        /\ pc' = IF v.raised THEN "input" ELSE "validated"
        /\ calc_results' = IF v.raised THEN [calc_results EXCEPT !.ended = "raised"]
                           ELSE calc_results
        /\ UNCHANGED <<config, responses, result, edits, file, loader_config, returned,
                       outcome, error, loader_path, query, report, session>>

\* calculate_results: "if validation_errors: return 0, {}, validation_errors"
ReturnErrors ==
    /\ pc = "validated"
    /\ HasErrors(validation.errors)
    /\ calc_results' = [calc_results EXCEPT !.ended = "returned", !.total_days = 0,
                                            !.breakdown = <<>>,
                                            !.errors = validation.errors]
    /\ pc' = "returned"
    /\ UNCHANGED <<config, responses, result, validation, edits, file, loader_config,
                   returned, outcome, error, loader_path, query, report, session>>

\* calculate_results: the calculate_working_days call and the return of its
\* result with an empty error map; the exception it raises ends the run
CalculateWorkingDays ==
    LET computed == calculate_working_days(Content(config).calculation_rules, responses)
    IN  /\ pc = "validated"
        /\ ~HasErrors(validation.errors)
        /\ result' = computed
        /\ calc_results' =
              IF computed.raised THEN [calc_results EXCEPT !.ended = "raised"]
              ELSE [calc_results EXCEPT !.ended = "returned",
                                        !.total_days = computed.total_days,
                                        !.breakdown = computed.breakdown,
                                        !.errors = EmptyTbl]
        /\ pc' = IF computed.raised THEN "input" ELSE "returned"
        /\ UNCHANGED <<config, responses, validation, edits, file, loader_config,
                       returned, outcome, error, loader_path, query, report, session>>

\* the caller of calculate_results: the else branch of "if errors:"
StoreResults ==
    /\ pc = "returned"
    /\ ~HasErrors(calc_results.errors)
    /\ session' = [calculated |-> TRUE, total_days |-> calc_results.total_days,
                   breakdown |-> calc_results.breakdown, responses |-> responses]
    /\ pc' = "input"
    /\ UNCHANGED <<config, responses, result, validation, edits, file, loader_config,
                   returned, outcome, error, loader_path, query, report, calc_results>>

\* the caller of calculate_results: "if errors:", the errors are displayed
ShowErrors ==
    /\ pc = "returned"
    /\ HasErrors(calc_results.errors)
    /\ pc' = "input"
    /\ UNCHANGED <<config, responses, result, validation, edits, file, loader_config,
                   returned, outcome, error, loader_path, query, report, session,
                   calc_results>>

AppNext ==
    \/ \E f \in AppFiles : WriteFile(f)
    \/ RunLoad
    \/ \E u \in FormChoices : RenderMainForm(u)
    \/ \E u \in FormChoices : RenderQuickEstimate(u)
    \/ NotSubmitted
    \/ ValidateResponses
    \/ ReturnErrors
    \/ CalculateWorkingDays
    \/ StoreResults
    \/ ShowErrors

AppSpec == AppInit /\ [][AppNext]_vars

(***************************************************************************)
(* Properties                                                              *)
(***************************************************************************)
rules == Content(config).calculation_rules

Returned == pc = "done" /\ ~result.raised

BreakdownSum == SumValues(result.breakdown, 1)

HasEntry(bd, name) == \E i \in 1..Len(bd) : bd[i].k = name

EntryOf(bd, name) ==
    IF HasEntry(bd, name) THEN bd[CHOOSE i \in 1..Len(bd) : bd[i].k = name].v ELSE 0

DayRange == (-200)..200

\* floor of a half-day quantity, in days
FloorDays(h) == CHOOSE d \in DayRange : d * Unit <= h /\ h < (d + 1) * Unit

AcceptedRules == validate_calculation_rules(rules) = {}

\* C1 as stated: for every response set and rule set calculate_working_days
\* returns, and total_days is the larger of floor(sum of the breakdown values)
\* and minimum_project_days.
C1_FloorThenClamp ==
    pc = "done" =>
        /\ ~result.raised
        /\ result.total_days =
              Max(FloorDays(BreakdownSum), rules.minimum_project_days)

\* C2: every configuration load_config returns has passed structural
\* validation, whatever loads, reloads and file changes came before.
C2_ReturnedConfigIsValid ==
    outcome = "returned" => Valid(returned)

TableCounts == {-1, 1, 2, 3, 5}

\* C3: with an accepted rule set, a response set that differs only by a
\* larger tables_count never gets a smaller total_days (stated here for
\* table counts of at least 1, the ones a numeric question accepts).
C3_MonotoneInTablesCount ==
    (Returned /\ AcceptedRules /\ "tables_count" \in DOMAIN responses) =>
        \A n \in TableCounts :
            LET second == calculate_working_days(rules, Put(responses, "tables_count", Num(n)))
            IN  (responses["tables_count"].t = "num" /\ responses["tables_count"].n >= 1
                 /\ n > responses["tables_count"].n /\ ~second.raised)
                => second.total_days >= result.total_days

\* C4: calculate_working_days returns for every response set, it never raises.
C4_NeverRaises ==
    pc = "done" => ~result.raised

LegalAnswer(q, v) ==
    CASE q.type = "number_input" ->
           /\ IsNumber(v) /\ v.n >= 0
           /\ (q.min_value.t = "none" \/ v.n >= q.min_value.n)
           /\ (q.max_value.t = "none" \/ v.n <= q.max_value.n)
      [] q.type \in {"selectbox", "radio"} ->
           v.t = "str" /\ v.s \in SeqToSet(q.options)
      [] OTHER -> TRUE

\* exactly the non-optional questions answered, each with a legal value
MinimalLegal(c, r) ==
    /\ DOMAIN r = {qid \in DOMAIN c.questions : ~c.questions[qid].optional}
    /\ \A qid \in DOMAIN r : LegalAnswer(c.questions[qid], r[qid])

\* C6: for a configuration that passes validation and a response set holding
\* exactly the non-optional fields, the computation returns and
\* total_days >= base_service_days and total_days >= minimum_project_days.
C6_DefaultFloor ==
    (pc = "done" /\ Valid(config) /\ MinimalLegal(Content(config), responses)) =>
        /\ ~result.raised
        /\ result.total_days >= rules.base_service_days
        /\ result.total_days >= rules.minimum_project_days

\* a minimal response set computed under an accepted configuration whose
\* integration component is negative and therefore left out
C6_Witness ==
    /\ Returned /\ Valid(config) /\ MinimalLegal(Content(config), responses)
    /\ _calculate_integration_complexity(rules, responses).v < 0
    /\ ~HasEntry(result.breakdown, "Data Integration")

TotalRules == responses["rules_count"].n * tables_count(responses).n

BaseRulesIncluded == TGet(rules.rules_overhead, "base_rules_included", 20)

RatePer5 == TGet(rules.rules_overhead, "additional_rules_per_5", Unit \div 2)

\* the number of blocks of 5 needed to cover n extra rules
Blocks(n) == CHOOSE b \in 0..n : 5 * b >= n /\ 5 * (b - 1) < n

ExpectedOverhead ==
    IF "rules_count" \notin DOMAIN responses THEN 0
    ELSE IF TotalRules <= BaseRulesIncluded THEN 0
         ELSE Blocks(TotalRules - BaseRulesIncluded) * RatePer5

RulesEntryMatches(overhead) ==
    LET days == base_rules_impact(rules, responses) + overhead
    IN  IF days > 0
        THEN EntryOf(result.breakdown, "DQ Rules Development") = days
        ELSE ~HasEntry(result.breakdown, "DQ Rules Development")

\* C7: the rules overhead is 0 without rules_count or up to the included
\* rules, and one rate per started block of 5 beyond them; with 20 included
\* and rate 0.5, totals 20, 21, 25, 26 give 0, 0.5, 0.5, 1.0.
C7_RulesOverheadStep ==
    Returned =>
        /\ RulesEntryMatches(ExpectedOverhead)
        /\ ("rules_count" \in DOMAIN responses
            /\ BaseRulesIncluded = 20 /\ 2 * RatePer5 = Unit) =>
              /\ TotalRules = 20 => RulesEntryMatches(0)
              /\ TotalRules = 21 => RulesEntryMatches(Unit \div 2)
              /\ TotalRules = 25 => RulesEntryMatches(Unit \div 2)
              /\ TotalRules = 26 => RulesEntryMatches(Unit)

\* 26 rules in total against 20 included at rate 0.5: two blocks
C7_Witness ==
    /\ Returned
    /\ "rules_count" \in DOMAIN responses
    /\ BaseRulesIncluded = 20 /\ 2 * RatePer5 = Unit
    /\ TotalRules = 26
    /\ EntryOf(result.breakdown, "DQ Rules Development")
          = base_rules_impact(rules, responses) + Unit

\* the same request with the table count moved to the other key
WithCountUnder(r, key, v) ==
    Put(Drop(Drop(r, "tables_count"), "num_workflows"), key, v)

\* C8: a table count given as num_workflows computes as the same count given
\* as tables_count; with both keys tables_count is used; with neither it is 1.
C8_LegacyFallback ==
    pc = "done" =>
        LET hasNew == "tables_count" \in DOMAIN responses
            hasOld == "num_workflows" \in DOMAIN responses
        IN  /\ (hasOld /\ ~hasNew) =>
                 result = calculate_working_days(rules,
                             WithCountUnder(responses, "tables_count",
                                            responses["num_workflows"]))
            /\ (hasNew /\ ~hasOld) =>
                 result = calculate_working_days(rules,
                             WithCountUnder(responses, "num_workflows",
                                            responses["tables_count"]))
            /\ (hasNew /\ hasOld) =>
                 result = calculate_working_days(rules, Drop(responses, "num_workflows"))
            /\ (~hasNew /\ ~hasOld) =>
                 result = calculate_working_days(rules, Put(responses, "tables_count", Num(1)))

\* a request counted by num_workflows alone, with the data-volume,
\* historical-analysis and rules-overhead terms all using the count
C8_Witness ==
    /\ Returned
    /\ "num_workflows" \in DOMAIN responses
    /\ "tables_count" \notin DOMAIN responses
    /\ responses["num_workflows"].n > 1
    /\ HasEntry(result.breakdown, "Data Volume Impact")
    /\ "historical_analysis" \in DOMAIN responses

\* the questions one full validation call checks, as the code obtains them
ValidatedIds ==
    SeqToSet(get_questions_for_complexity(loader_config, validation.level).list)
        \cap DOMAIN Content(config).questions

\* question qid is answered legally, or is optional and unanswered
NoViolation(qid) ==
    LET q == Content(config).questions[qid]
    IN  IF qid \in DOMAIN responses THEN LegalAnswer(q, responses[qid]) ELSE q.optional

FullValidationDone ==
    /\ pc = "validated"
    /\ validation.call = "full"
    /\ ~get_questions_for_complexity(loader_config, validation.level).raised

\* C9: when a non-optional question Q of the validated level is missing from
\* the responses and nothing else is wrong, validate_responses returns a map
\* with the single entry Q.
C9_MissingRequiredOnly ==
    FullValidationDone =>
        \A qid \in ValidatedIds :
            ( /\ ~Content(config).questions[qid].optional
              /\ qid \notin DOMAIN responses
              /\ \A other \in ValidatedIds \ {qid} : NoViolation(other) )
            => /\ ~validation.raised
               /\ validation.errors = (qid :> "This field is required")

\* the basic level validated against a response set lacking only data_sources
C9_Witness ==
    /\ FullValidationDone
    /\ validation.level = "basic"
    /\ "data_sources" \in ValidatedIds
    /\ "data_sources" \notin DOMAIN responses
    /\ \A other \in ValidatedIds \ {"data_sources"} : NoViolation(other)
    /\ DOMAIN validation.errors = {"data_sources"}

\* C10: the end-to-end scenario gives Base 9, Workflow 12, Integration 9,
\* Rules 5, Additional 3, nothing else, and 38 days.
C10_EndToEndScenario ==
    (pc = "done" /\ rules = ScenarioRules /\ responses = ScenarioResponses) =>
        result = [raised |-> FALSE,
                  total_days |-> 38,
                  breakdown |->
                     << [k |-> "Base Service (Phases 0-3)", v |-> 9 * Unit],
                        [k |-> "Workflow Complexity",       v |-> 12 * Unit],
                        [k |-> "Data Integration",          v |-> 9 * Unit],
                        [k |-> "DQ Rules Development",      v |-> 5 * Unit],
                        [k |-> "Additional Requirements",   v |-> 3 * Unit] >>]

\* the scenario has been computed
C10_Witness ==
    /\ pc = "done" /\ rules = ScenarioRules /\ responses = ScenarioResponses
    /\ result.total_days = 38

\* C11 as stated: validate_responses and validate_quick_responses return an
\* error map for every response set, every tier name and every state of the
\* global loader; they never raise.
C11_ValidationNeverRaises ==
    pc = "validated" => ~validation.raised

\* the source a load_config call on the global loader reads
Source == SourceAt(loader_path, file)

\* the source is read and holds a document _parse_config builds a configuration from
Parses(f) == Readable(f) /\ _parse_config(f).raised = ""

\* a load_config call that reads the source: nothing cached, or a reload
ReadingLoad(reload) == LoadConfig(reload) /\ (loader_config = NoConfig \/ reload)

\* C12: a load_config call whose source is missing, unparsable, of an
\* unsupported extension or structurally invalid raises ConfigurationError
\* and returns nothing, no other exception type leaves load_config, and the
\* missing and unparsable cases carry a message other than the
\* validation-violations one.
C12_FailedLoadRaisesConfigurationError ==
    [][\A reload \in BOOLEAN :
          ReadingLoad(reload) =>
             /\ outcome' \in {"returned", "ConfigurationError"}
             /\ (~Parses(Source) \/ ~Valid(Source)) =>
                   outcome' = "ConfigurationError" /\ returned' = NoConfig
             /\ Source \in {MissingFile, UnparsableFile, UnsupportedFile} =>
                   /\ error'.message # "Configuration validation errors"
                   /\ error'.violations = {}
             /\ (Parses(Source) /\ ~Valid(Source)) =>
                   /\ error'.message = "Configuration validation errors"
                   /\ error'.violations # {}]_vars

\* a reload of a file that has become unparsable, after a successful load
C12_Witness ==
    /\ outcome = "ConfigurationError"
    /\ error.message = "Invalid configuration file format"
    /\ loader_config # NoConfig
    /\ Source = UnparsableFile

TableNames ==
    {"workflow_multipliers", "integration_complexity", "integration_complexity_legacy",
     "data_volume_multipliers", "rules_overhead", "existing_rules_impact", "tool_setup",
     "datawash_installation", "cloud_integration", "additional_requirements"}

\* base_service_days > 0, base_service_days >= minimum_project_days and every
\* coefficient of every table >= 0
RuleSetInvariant(rs) ==
    /\ rs.base_service_days > 0
    /\ rs.base_service_days >= rs.minimum_project_days
    /\ \A t \in TableNames : \A k \in DOMAIN rs[t] : rs[t][k] >= 0

\* C13 as stated: every configuration the loader accepts satisfies the
\* rule-set invariant, the legacy integration table, the installation-service
\* table and the rules-overhead parameters included.
C13_AcceptedRuleSetInvariant ==
    (outcome = "returned" /\ Valid(returned)) =>
        RuleSetInvariant(Content(returned).calculation_rules)

\* the four conditions of structural validation
QuestionInvariant(q) ==
    /\ q.type = "number_input" =>
          /\ q.min_value.t = "num" /\ q.max_value.t = "num"
          /\ q.min_value.n < q.max_value.n
    /\ q.type \in {"selectbox", "radio"} => Len(q.options) >= 2

LevelListDeclared(c, level) ==
    \/ c.complexity_levels[level].all
    \/ \A i \in 1..Len(c.complexity_levels[level].show_questions) :
          c.complexity_levels[level].show_questions[i] \in DOMAIN c.questions

SectionDeclared(c, qid) ==
    \E i \in 1..Len(c.ui_sections) : c.ui_sections[i] = c.questions[qid].section

DependencyResolves(c, qid) ==
    LET q == c.questions[qid]
    IN  q.depends_on # "" =>
           /\ q.depends_on \in DOMAIN c.questions
           /\ \E i \in 1..Len(c.questions[q.depends_on].options) :
                 c.questions[q.depends_on].options[i] = q.depends_value

ListedConditions(c) ==
    /\ \A qid \in DOMAIN c.questions : QuestionInvariant(c.questions[qid])
    /\ \A level \in DOMAIN c.complexity_levels : LevelListDeclared(c, level)
    /\ \A qid \in DOMAIN c.questions : SectionDeclared(c, qid)
    /\ \A qid \in DOMAIN c.questions : DependencyResolves(c, qid)

\* what validation requires beyond the four conditions
DeclaredKinds(c) ==
    \A qid \in DOMAIN c.questions :
        /\ c.questions[qid].type \in {"number_input", "selectbox", "radio", "checkbox"}
        /\ c.questions[qid].complexity_level \in {"basic", "advanced"}

ScalarsAndCheckedTables(rs) ==
    /\ rs.base_service_days > 0 /\ rs.minimum_project_days > 0
    /\ rs.base_service_days >= rs.minimum_project_days
    /\ \A t \in TableNames \ {"integration_complexity_legacy", "rules_overhead",
                              "datawash_installation"} :
          \A k \in DOMAIN rs[t] : rs[t][k] >= 0

\* every question, level and section that breaks a condition is named by a
\* violation of the reported list
EachReported(c, violations) ==
    /\ \A qid \in DOMAIN c.questions :
          (~QuestionInvariant(c.questions[qid]) \/ ~DependencyResolves(c, qid)) =>
             \E v \in violations : v.on = qid
    /\ \A qid \in DOMAIN c.questions :
          ~SectionDeclared(c, qid) =>
             \E v \in violations : v.on = c.questions[qid].section
    /\ \A level \in DOMAIN c.complexity_levels :
          ~LevelListDeclared(c, level) => \E v \in violations : v.on = level

\* C14 as stated: a load_config call that reads a source holding a document
\* returns a configuration if and only if the four conditions hold (question
\* invariants, level lists, sections, dependencies).
C14_LoadSucceedsIffListedConditions ==
    [][\A reload \in BOOLEAN :
          (ReadingLoad(reload) /\ Parses(Source)) =>
             (outcome' = "returned" <=> ListedConditions(Content(Source)))]_vars

\* C14 amended: a load_config call that reads a source holding a document
\* returns a configuration if and only if the four conditions hold and, in addition,
\* every question has a declared type and complexity level and the rule set
\* has positive scalars with base >= minimum and no negative coefficient in
\* the seven checked tables; when it fails, the error names every question,
\* level and section that breaks a condition, not only the first.
C14_LoadSucceedsIffNoViolation ==
    [][\A reload \in BOOLEAN :
          (ReadingLoad(reload) /\ Parses(Source)) =>
             /\ outcome' = "returned" <=>
                   /\ ListedConditions(Content(Source))
                   /\ DeclaredKinds(Content(Source))
                   /\ ScalarsAndCheckedTables(Content(Source).calculation_rules)
             /\ outcome' # "returned" =>
                   EachReported(Content(Source), error'.violations)]_vars

\* a failed load whose error names a question, a section and a level
C14_Witness ==
    /\ outcome = "ConfigurationError"
    /\ \E v \in error.violations : v.e = "min_value must be less than max_value"
    /\ \E v \in error.violations : v.e = "missing UI section"
    /\ \E v \in error.violations : v.e = "undefined questions in level"

\* C15 as stated: the breakdown formatter returns a result for every
\* total_days, 0 included, and every breakdown.
C15_FormatterNeverRaises ==
    pc = "formatted" => ~report.raised

\* C16 as stated: a validate_responses call takes the level's question list
\* and the question definitions from one configuration, the engine's: it
\* returns what it returns when the list is taken from the engine's own
\* configuration.
C16_OneSnapshotPerValidation ==
    (pc = "validated" /\ validation.call = "full" /\ ~validation.raised) =>
        validation = Called("full", validation.level,
                        validate_responses(config, config, responses,
                                           NoRequired, validation.level))

\* the breakdown holds the given number of half-days under name, or no entry
\* when the number is not positive
EntryMatches(name, days) ==
    IF days > 0 THEN EntryOf(result.breakdown, name) = days
    ELSE ~HasEntry(result.breakdown, name)

ToolLabel ==
    RGet(responses, "commercial_tool", RGet(responses, "dq_tool_status", Str(ToolNone)))

InstallationDays ==
    Lookup(rules.datawash_installation,
           RGet(responses, "datawash_installation", Str(WashNo)), 0)

\* the legacy heuristic: the rate of 'Have existing DQ tool' (2.0 when not
\* configured) for a label containing 'existing', else the rate of
\* 'Need tool acquisition' (3.0 when not configured)
HeuristicRate(label) ==
    IF label \in {ToolHave, ToolInHouse}
    THEN IF ToolHave \in DOMAIN rules.tool_setup
         THEN rules.tool_setup[ToolHave] ELSE 2 * Unit
    ELSE IF ToolAcquire \in DOMAIN rules.tool_setup
         THEN rules.tool_setup[ToolAcquire] ELSE 3 * Unit

\* C17 as stated: Tool Setup is the label's rate when the label is a key of
\* tool_setup, the heuristic rate for every label that is not a key, plus the
\* installation-service rate.
C17_HeuristicForEveryOtherLabel ==
    (Returned /\ ToolLabel.t = "str") =>
        EntryMatches("Tool Setup",
            (IF ToolLabel.s \in DOMAIN rules.tool_setup
             THEN rules.tool_setup[ToolLabel.s] ELSE HeuristicRate(ToolLabel.s))
            + InstallationDays)

\* C17 amended: Tool Setup is the label's rate when the label is a key of
\* tool_setup; the heuristic rate when it is not a key and is one of the two
\* legacy labels 'Have existing DQ tool' and 'Need other tool'; 0 for every
\* other label; plus the installation-service rate.
C17_HeuristicForLegacyLabels ==
    Returned =>
        EntryMatches("Tool Setup",
            (IF ToolLabel.t = "str" /\ ToolLabel.s \in DOMAIN rules.tool_setup
             THEN rules.tool_setup[ToolLabel.s]
             ELSE IF ToolLabel.t = "str" /\ ToolLabel.s \in {ToolHave, ToolOther}
                  THEN HeuristicRate(ToolLabel.s)
                  ELSE 0)
            + InstallationDays)

\* 'Need other tool' is not a key and gets the acquisition rate, with an
\* installation service on top
C17_Witness ==
    /\ Returned
    /\ ToolLabel = Str(ToolOther)
    /\ ToolOther \notin DOMAIN rules.tool_setup
    /\ ToolAcquire \in DOMAIN rules.tool_setup
    /\ InstallationDays > 0
    /\ EntryOf(result.breakdown, "Tool Setup")
          = rules.tool_setup[ToolAcquire] + InstallationDays

Falsy(v) == v \in {Bool(FALSE), Num(0), Str(""), NoneV}

IsTrue(k) == k \in DOMAIN responses /\ ~Falsy(responses[k])

Cost(name, default) ==
    IF name \in DOMAIN rules.additional_requirements
    THEN rules.additional_requirements[name] ELSE default

\* C18: Additional Requirements is governance_setup iff governance_maturity
\* is falsy or absent, plus compliance iff compliance_req is true, plus
\* table_count * historical_analysis_per_workflow iff historical_analysis is
\* true, plus system_integration iff system_integration is true.
C18_FourGatedTerms ==
    Returned =>
        EntryMatches("Additional Requirements",
            (IF IsTrue("governance_maturity") THEN 0 ELSE Cost("governance_setup", 3 * Unit))
            + (IF IsTrue("compliance_req") THEN Cost("compliance", 2 * Unit) ELSE 0)
            + (IF IsTrue("historical_analysis")
               THEN tables_count(responses).n
                       * Cost("historical_analysis_per_workflow", 2 * Unit)
               ELSE 0)
            + (IF IsTrue("system_integration")
               THEN Cost("system_integration", 3 * Unit) ELSE 0))

\* governance_maturity is answered false and charged, next to a historical
\* analysis over several tables
C18_Witness ==
    /\ Returned
    /\ "governance_maturity" \in DOMAIN responses
    /\ responses["governance_maturity"] = Bool(FALSE)
    /\ IsTrue("historical_analysis")
    /\ tables_count(responses).n > 1
    /\ Cost("governance_setup", 0) > 0
    /\ EntryOf(result.breakdown, "Additional Requirements")
          = Cost("governance_setup", 0)
            + tables_count(responses).n * Cost("historical_analysis_per_workflow", 0)

SectionsAnswered == query.op = "sections" /\ ~query.raised

\* the position of a section in ui_sections
DeclaredAt(c, section) == CHOOSE i \in 1..Len(c.ui_sections) : c.ui_sections[i] = section

VisibleIds == SeqToSet(get_questions_for_complexity(loader_config, query.arg).list)

\* C19 as stated: get_questions_by_section returns the tier's visible
\* questions grouped by section, the groups in the order of ui_sections,
\* each visible question in exactly one group, the group of its section, and
\* no other question in any group.
C19_GroupsInSectionDeclarationOrder ==
    (SectionsAnswered /\ Valid(loader_config)) =>
        LET c == Content(loader_config)
            groups == query.sections
        IN  /\ \A i, j \in 1..Len(groups) :
                  i < j => DeclaredAt(c, groups[i].section) < DeclaredAt(c, groups[j].section)
            /\ \A qid \in VisibleIds :
                  \E i \in 1..Len(groups) :
                     /\ groups[i].section = c.questions[qid].section
                     /\ \E n \in 1..Len(groups[i].questions) : groups[i].questions[n] = qid
            /\ \A i \in 1..Len(groups) : \A n \in 1..Len(groups[i].questions) :
                  /\ groups[i].questions[n] \in VisibleIds
                  /\ \A j \in 1..Len(groups) : \A m \in 1..Len(groups[j].questions) :
                        groups[j].questions[m] = groups[i].questions[n] => (j = i /\ m = n)

ShowAnswered ==
    /\ query.op = "show" /\ ~query.raised
    /\ query.arg \in DOMAIN Content(loader_config).questions

AskedQuestion == Content(loader_config).questions[query.arg]

\* C20: should_show_question is true for a declared question unless the
\* question declares a dependency and the referenced question's value is
\* absent from the candidate responses or differs from the required value;
\* it is true for every question without a dependency.
C20_ShownUnlessDependencyUnmet ==
    ShowAnswered =>
        /\ query.shown <=>
              ~( /\ AskedQuestion.depends_on # ""
                 /\ \/ AskedQuestion.depends_on \notin DOMAIN query.r
                    \/ query.r[AskedQuestion.depends_on] # Str(AskedQuestion.depends_value) )
        /\ AskedQuestion.depends_on = "" => query.shown

\* a dependent question asked about with its dependency met
C20_Witness ==
    /\ ShowAnswered
    /\ AskedQuestion.depends_on # ""
    /\ AskedQuestion.depends_on \in DOMAIN query.r
    /\ query.shown

QuickValidationDone == pc = "validated" /\ validation.call = "quick"

Whitelist == {"tables_count", "workflow_complexity", "data_sources", "existing_rules"}

\* C22: quick validation checks only the whitelist tables_count,
\* workflow_complexity, data_sources, existing_rules, whatever the global
\* loader holds: it returns, its error map has keys from the whitelist only, a
\* whitelisted non-optional declared question that is absent is reported as
\* required, and no other question gets an entry.
C22_QuickChecksWhitelistOnly ==
    QuickValidationDone =>
        /\ ~validation.raised
        /\ DOMAIN validation.errors \subseteq Whitelist
        /\ \A qid \in Whitelist \cap DOMAIN Content(config).questions :
              (~Content(config).questions[qid].optional /\ qid \notin DOMAIN responses)
              => /\ qid \in DOMAIN validation.errors
                 /\ validation.errors[qid] = "This field is required"
        /\ \A qid \in DOMAIN Content(config).questions \ Whitelist :
              qid \notin DOMAIN validation.errors
        /\ \A g \in Docs \cup {NoConfig} :
              validation = Called("quick", "",
                                  validate_quick_responses(config, g, responses))

\* a quick validation of responses lacking data_sources and holding a
\* rules_count above the declared maximum: one entry, for data_sources
C22_Witness ==
    /\ QuickValidationDone
    /\ "data_sources" \notin DOMAIN responses
    /\ "rules_count" \in DOMAIN responses
    /\ responses["rules_count"].n > Content(config).questions["rules_count"].max_value.n
    /\ DOMAIN validation.errors = {"data_sources"}

\* the value is in the question's declared option set
InOptions(q, v) == v.t = "str" /\ \E i \in 1..Len(q.options) : q.options[i] = v.s

\* the value is not a number, is negative, or is outside the declared range
OutOfRange(q, v) ==
    \/ v.t \notin {"num", "bool"}
    \/ v.n < 0
    \/ q.min_value.t = "num" /\ v.n < q.min_value.n
    \/ q.max_value.t = "num" /\ v.n > q.max_value.n

\* C23 as stated: full validation of a present response records an entry for
\* a numeric question iff the value is not a number, is negative, is below
\* the declared min or above the declared max, and for a choice question
\* (selectbox or radio) iff the value is not in the declared option set.
C23_EntryIffIllegal ==
    (FullValidationDone /\ ~validation.raised) =>
        \A qid \in ValidatedIds \cap DOMAIN responses :
            LET q == Content(config).questions[qid]
            IN  /\ q.type = "number_input" =>
                      (qid \in DOMAIN validation.errors <=> OutOfRange(q, responses[qid]))
                /\ q.type \in {"selectbox", "radio"} =>
                      (qid \in DOMAIN validation.errors <=> ~InOptions(q, responses[qid]))

BaseName == "Base Service (Phases 0-3)"

\* the eight breakdown names in evaluation order
EvaluationOrder ==
    << BaseName, "Workflow Complexity", "Data Integration", "DQ Rules Development",
       "Data Volume Impact", "Tool Setup", "Cloud Integration", "Additional Requirements" >>

OrderOf(name) == CHOOSE i \in 1..Len(EvaluationOrder) : EvaluationOrder[i] = name

\* the value computed for the component of the given name
Computed(name) ==
    LET comps == Components(rules, responses)
    IN  comps[CHOOSE i \in 1..Len(comps) : comps[i].k = name].c.v

\* C24: Base Service is in every breakdown with value base_service_days;
\* each of the seven other components is a key iff its computed value is
\* greater than 0, so no other entry is zero or negative; the keys appear in
\* the fixed evaluation order.
C24_BreakdownMembership ==
    Returned =>
        LET bd == result.breakdown
        IN  /\ Len(bd) >= 1
            /\ bd[1] = [k |-> BaseName, v |-> rules.base_service_days * Unit]
            /\ \A n \in 2..Len(EvaluationOrder) :
                  /\ HasEntry(bd, EvaluationOrder[n]) <=> Computed(EvaluationOrder[n]) > 0
                  /\ HasEntry(bd, EvaluationOrder[n]) =>
                        EntryOf(bd, EvaluationOrder[n]) = Computed(EvaluationOrder[n])
            /\ \A i \in 2..Len(bd) : bd[i].v > 0
            /\ \A i \in 1..Len(bd) : \E n \in 1..Len(EvaluationOrder) : bd[i].k = EvaluationOrder[n]
            /\ \A i, j \in 1..Len(bd) : i < j => OrderOf(bd[i].k) < OrderOf(bd[j].k)

\* a breakdown that leaves out a component of zero days and a component of
\* negative days and keeps a later one
C24_Witness ==
    /\ Returned
    /\ Computed("Data Integration") < 0
    /\ Computed("Cloud Integration") = 0
    /\ ~HasEntry(result.breakdown, "Data Integration")
    /\ ~HasEntry(result.breakdown, "Cloud Integration")
    /\ HasEntry(result.breakdown, "Workflow Complexity")
    /\ HasEntry(result.breakdown, "Additional Requirements")

\* the label Data Integration is computed from
IntegrationLabel ==
    IF "data_sources" \in DOMAIN responses THEN responses["data_sources"]
    ELSE IF "integration_complexity" \in DOMAIN responses
         THEN responses["integration_complexity"]
         ELSE Str("")

IsKeyOf(tbl, label) == label.t = "str" /\ \E k \in DOMAIN tbl : k = label.s

\* C25: Data Integration is table_count * m, the label taken from data_sources,
\* or from integration_complexity only when data_sources is absent, and m the
\* label's value in the current integration-complexity table if it is a key
\* there, else its value in the legacy table if it is a key there, else 0.
C25_CurrentThenLegacy ==
    Returned =>
        LET n == tables_count(responses).n
            label == IntegrationLabel
        IN  /\ IsKeyOf(rules.integration_complexity, label) =>
                  EntryMatches("Data Integration",
                               n * rules.integration_complexity[label.s])
            /\ (~IsKeyOf(rules.integration_complexity, label)
                /\ IsKeyOf(rules.integration_complexity_legacy, label)) =>
                  EntryMatches("Data Integration",
                               n * rules.integration_complexity_legacy[label.s])
            /\ (~IsKeyOf(rules.integration_complexity, label)
                /\ ~IsKeyOf(rules.integration_complexity_legacy, label)) =>
                  ~HasEntry(result.breakdown, "Data Integration")

\* data_sources and integration_complexity both answered, with different
\* labels, and the data_sources label a key of both tables with different
\* values: the current table's value is charged
C25_Witness ==
    /\ Returned
    /\ "data_sources" \in DOMAIN responses
    /\ "integration_complexity" \in DOMAIN responses
    /\ responses["integration_complexity"] # responses["data_sources"]
    /\ IsKeyOf(rules.integration_complexity, IntegrationLabel)
    /\ IsKeyOf(rules.integration_complexity_legacy, IntegrationLabel)
    /\ rules.integration_complexity[IntegrationLabel.s]
          # rules.integration_complexity_legacy[IntegrationLabel.s]
    /\ EntryOf(result.breakdown, "Data Integration")
          = tables_count(responses).n * rules.integration_complexity[IntegrationLabel.s]

\* the response under key is present and its label is not a key of the table
Unrecognized(key, tbl) ==
    key \in DOMAIN responses /\ ~IsKeyOf(tbl, responses[key])

\* the existing-rules label, read from existing_rules or dq_rules_status
RulesLabelUnrecognized ==
    IF "existing_rules" \in DOMAIN responses
    THEN Unrecognized("existing_rules", rules.existing_rules_impact)
    ELSE Unrecognized("dq_rules_status", rules.existing_rules_impact)

\* the commercial-tool part of Tool Setup
CommercialDays ==
    IF IsKeyOf(rules.tool_setup, ToolLabel) THEN rules.tool_setup[ToolLabel.s]
    ELSE IF ToolLabel.t = "str" /\ ToolLabel.s \in {ToolHave, ToolOther}
         THEN HeuristicRate(ToolLabel.s)
         ELSE 0

\* the counts the arithmetic multiplies are numbers
NumericCounts ==
    /\ IsNumber(tables_count(responses))
    /\ "rules_count" \in DOMAIN responses => IsNumber(responses["rules_count"])

\* C26: an unrecognized workflow_complexity label gives multiplier 2.0, an
\* unrecognized existing-rules label gives base impact 5.0, an unrecognized
\* data_volume, datawash_installation or cloud_platform label gives 0, Data
\* Volume Impact is 0 whenever data_volume is absent, and no label makes the
\* computation raise.
C26_LookupDefaults ==
    pc = "done" =>
        /\ NumericCounts => ~result.raised
        /\ ~result.raised =>
              /\ Unrecognized("workflow_complexity", rules.workflow_multipliers) =>
                    EntryMatches("Workflow Complexity",
                                 tables_count(responses).n * 2 * Unit)
              /\ RulesLabelUnrecognized =>
                    EntryMatches("DQ Rules Development", 5 * Unit + ExpectedOverhead)
              /\ Unrecognized("data_volume", rules.data_volume_multipliers) =>
                    ~HasEntry(result.breakdown, "Data Volume Impact")
              /\ "data_volume" \notin DOMAIN responses =>
                    ~HasEntry(result.breakdown, "Data Volume Impact")
              /\ Unrecognized("datawash_installation", rules.datawash_installation) =>
                    EntryMatches("Tool Setup", CommercialDays)
              /\ Unrecognized("cloud_platform", rules.cloud_integration) =>
                    ~HasEntry(result.breakdown, "Cloud Integration")

\* two tables with an unknown workflow label and an unknown existing-rules
\* label: 2 * 2.0 days of workflow and 5.0 days of rules
C26_Witness ==
    /\ Returned
    /\ tables_count(responses) = Num(2)
    /\ Unrecognized("workflow_complexity", rules.workflow_multipliers)
    /\ Unrecognized("existing_rules", rules.existing_rules_impact)
    /\ "rules_count" \notin DOMAIN responses
    /\ EntryOf(result.breakdown, "Workflow Complexity") = 4 * Unit
    /\ EntryOf(result.breakdown, "DQ Rules Development") = 5 * Unit

\* base_service_days plus the components that are greater than 0
ComponentSum ==
    LET Kept(n) == IF Computed(EvaluationOrder[n]) > 0
                   THEN Computed(EvaluationOrder[n]) ELSE 0
    IN  rules.base_service_days * Unit
        + Kept(2) + Kept(3) + Kept(4) + Kept(5) + Kept(6) + Kept(7) + Kept(8)

\* the floored component sum is below minimum_project_days
ClampApplies == Returned /\ FloorDays(ComponentSum) < rules.minimum_project_days

\* C27: when floor(sum of components) < minimum_project_days, total_days is
\* minimum_project_days while the breakdown still holds the unclamped
\* component values and no extra entry, so the breakdown sum is less than
\* the reported total_days.
C27_ClampChangesOnlyTotal ==
    ClampApplies =>
        LET bd == result.breakdown
        IN  /\ result.total_days = rules.minimum_project_days
            /\ EntryOf(bd, BaseName) = rules.base_service_days * Unit
            /\ \A n \in 2..Len(EvaluationOrder) :
                  EntryMatches(EvaluationOrder[n], Computed(EvaluationOrder[n]))
            /\ \A i \in 1..Len(bd) :
                  \E n \in 1..Len(EvaluationOrder) : bd[i].k = EvaluationOrder[n]
            /\ BreakdownSum = ComponentSum
            /\ BreakdownSum < result.total_days * Unit

\* base 3 and two components under a minimum of 12: the total is 12 and the
\* breakdown sums to less
C27_Witness ==
    /\ ClampApplies
    /\ rules.base_service_days = 3 /\ rules.minimum_project_days = 12
    /\ Len(result.breakdown) >= 3
    /\ result.total_days = 12
    /\ BreakdownSum > 3 * Unit /\ BreakdownSum < 12 * Unit

\* the responses pass full validation for some tier of the configuration
PassesFullValidation ==
    \E level \in DOMAIN Content(config).complexity_levels :
        LET v == validate_responses(config, config, responses, NoRequired, level)
        IN  ~v.raised /\ DOMAIN v.errors = {}

\* C28: under a configuration that passes structural validation and a
\* response set that passes full validation, the clamp never takes effect:
\* base_service_days >= minimum_project_days, no breakdown entry is negative,
\* and total_days is floor(sum of the breakdown values), which is at least
\* minimum_project_days.
C28_ClampNeverApplies ==
    (Returned /\ Valid(config) /\ PassesFullValidation) =>
        /\ rules.base_service_days >= rules.minimum_project_days
        /\ \A i \in 1..Len(result.breakdown) : result.breakdown[i].v >= 0
        /\ FloorDays(BreakdownSum) >= rules.minimum_project_days
        /\ result.total_days = FloorDays(BreakdownSum)

\* a validated response set whose breakdown sums to a fractional number of
\* days under an accepted configuration
C28_Witness ==
    /\ Returned /\ Valid(config) /\ PassesFullValidation
    /\ "rules_count" \in DOMAIN responses
    /\ BreakdownSum % Unit # 0
    /\ result.total_days * Unit < BreakdownSum
    /\ result.total_days > rules.minimum_project_days

\* a reload that raises after a successful load
FailedReload ==
    /\ LoadConfig(TRUE)
    /\ loader_config # NoConfig /\ Valid(loader_config)
    /\ outcome' = "ConfigurationError"

\* C29 as stated: when load_config(reload=True) raises after an earlier
\* successful load (file missing, unparsable, or validation failure), the
\* loader still holds the previously cached configuration and a subsequent
\* load_config(reload=False) returns it.
C29_FailedReloadKeepsCache ==
    [][FailedReload =>
          /\ loader_config' = loader_config
          /\ load_config(loader_config', SourceAt(loader_path', file'), FALSE)
                = Loaded(loader_config)]_vars

\* the advanced form was submitted and validated without an exception
FormValidated ==
    pc = "validated" /\ calc_results.mode = "Advanced" /\ ~validation.raised

\* C21 as stated: a non-optional question of the tier whose dependency is
\* unmet by the responses is not reported as 'This field is required', so
\* the responses the form collects, with every shown question answered
\* validly, validate with an empty error map.
C21_RequiredOnlyIfApplicable ==
    FormValidated =>
        /\ \A qid \in DOMAIN validation.errors :
              validation.errors[qid] = "This field is required" =>
                 should_show_question(loader_config, qid, responses).shown
        /\ DOMAIN validation.errors = {}

\* what the session holds is the computation of a response set that
\* validates with an empty error map, under one configuration
StoredFromValidated ==
    session.calculated =>
        \E c \in Docs :
            LET v == validate_responses(c, c, session.responses, NoRequired, "advanced")
                computed == calculate_working_days(Content(c).calculation_rules,
                                                   session.responses)
            IN  /\ ~v.raised /\ DOMAIN v.errors = {}
                /\ ~computed.raised
                /\ session.total_days = computed.total_days
                /\ session.breakdown = computed.breakdown

\* C30: in every run of calculate_results, calculate_working_days is called
\* only after validation returned an empty error map; on a non-empty map
\* calculate_results returns (0, {}, errors) without computing; the session
\* state changes only in the no-error case, to the computed results and the
\* validated responses, so stored results come from a validated response set.
C30_ValidationPrecedesComputation ==
    /\ []StoredFromValidated
    /\ [][ /\ result' # result /\ result' # NoResult =>
                /\ validation.call = "full" /\ ~validation.raised
                /\ DOMAIN validation.errors = {}
                /\ validation = calculate_results_validation(
                                   config, loader_config, responses, FALSE, "advanced")
           /\ (calc_results'.ended = "returned" /\ DOMAIN validation.errors # {}) =>
                /\ calc_results'.total_days = 0 /\ calc_results'.breakdown = <<>>
                /\ calc_results'.errors = validation.errors
                /\ result' = NoResult
           /\ session' # session =>
                /\ DOMAIN validation.errors = {} /\ ~validation.raised
                /\ result # NoResult /\ ~result.raised
                /\ session' = [calculated |-> TRUE, total_days |-> result.total_days,
                               breakdown |-> result.breakdown, responses |-> responses] ]_vars

\* a run that ended with validation errors after an earlier run stored its
\* results: the session still holds the earlier results
C30_Witness ==
    /\ pc = "input"
    /\ calc_results.ended = "returned"
    /\ DOMAIN calc_results.errors # {}
    /\ result = NoResult
    /\ session.calculated
    /\ session.responses # responses

====
